---- MODULE Spec2Model ----
(***************************************************************************)
(* Model of dns/generate_dns_snippets.py: the derivation of forward and    *)
(* reverse DNS records from Netbox data (Records, ForwardRecord).          *)
(*                                                                         *)
(* Python strings are sequences of one-character strings, so that split,   *)
(* join, strip, lower, endswith and replace are computed, not assumed.     *)
(* None is the record [kind |-> "None"].  An exception leaving a function  *)
(* is the value [kind |-> "raise", exc |-> <name>].                        *)
(***************************************************************************)
EXTENDS Integers, Sequences, FiniteSets, TLC

VARIABLES
    pc,             \* position of the modelled call: "call" or "return"
    args,           \* the arguments of the call being modelled
    ret,            \* what the call returned (or raised)
    netbox,         \* the Netbox instance: its devices and prefixes
    zones,          \* Records.zones: the direct and the reverse zone sets
    records_count,  \* generate(): the number of forward records produced
    events,         \* what the run did so far, in order: log records, console
                    \* output and input, git and file system operations
    repo,           \* the working checkout: its head, its index, what was pushed
    tmpdir,         \* the temporary checkout directory: the local name and the disk
    frame           \* the local variables of main() and run_commit()

vars == <<pc, args, ret, netbox, zones, records_count, events, repo, tmpdir, frame>>

\* The variables of the commit and push workflow.
workflow == <<events, repo, tmpdir, frame>>

None == [kind |-> "None"]

Raise(exc) == [kind |-> "raise", exc |-> exc]

Return(value) == [kind |-> "return", value |-> value]

\* No workflow is running: the call is made on its own.
NoWorkflow ==
    /\ events = <<>>
    /\ repo = None
    /\ tmpdir = None
    /\ frame = None

-----------------------------------------------------------------------------
(* Python str                                                              *)

\* The characters of a string literal, one per element.
S(lit) == [i \in 1..Len(lit) |-> SubSeq(lit, i, i)]

UpperChars == S("ABCDEFGHIJKLMNOPQRSTUVWXYZ")

LowerChars == S("abcdefghijklmnopqrstuvwxyz")

\* str.lower() of one character.
LowerChar(c) ==
    IF \E i \in DOMAIN UpperChars : UpperChars[i] = c
    THEN LowerChars[CHOOSE i \in DOMAIN UpperChars : UpperChars[i] = c]
    ELSE c

\* str.lower()
Lower(s) == [i \in DOMAIN s |-> LowerChar(s[i])]

Whitespace == {" ", "\t", "\n"}

RECURSIVE LStrip(_)
LStrip(s) == IF s /= <<>> /\ Head(s) \in Whitespace THEN LStrip(Tail(s)) ELSE s

RECURSIVE RStrip(_)
RStrip(s) ==
    IF s /= <<>> /\ s[Len(s)] \in Whitespace
    THEN RStrip(SubSeq(s, 1, Len(s) - 1))
    ELSE s

\* str.strip()
Strip(s) == RStrip(LStrip(s))

\* str.split(sep) for a one-character separator: always at least one part.
RECURSIVE Split(_, _)
Split(s, sep) ==
    IF \E i \in DOMAIN s : s[i] = sep
    THEN LET i == CHOOSE k \in DOMAIN s :
                      s[k] = sep /\ \A j \in 1..(k - 1) : s[j] /= sep
         IN  <<SubSeq(s, 1, i - 1)>> \o Split(SubSeq(s, i + 1, Len(s)), sep)
    ELSE <<s>>

\* sep.join(parts)
RECURSIVE Join(_, _)
Join(parts, sep) ==
    IF parts = <<>> THEN <<>>
    ELSE IF Len(parts) = 1 THEN parts[1]
    ELSE parts[1] \o sep \o Join(Tail(parts), sep)

\* str.endswith(suffix)
EndsWith(s, suffix) ==
    /\ Len(s) >= Len(suffix)
    /\ SubSeq(s, Len(s) - Len(suffix) + 1, Len(s)) = suffix

\* str.replace(old, new) for a one-character old.
Replace(s, old, new) ==
    Join(Split(s, old), new)

Digits == S("0123456789")

\* str(n) for an integer n >= 0.
RECURSIVE DecStr(_)
DecStr(n) ==
    IF n < 10 THEN <<Digits[n + 1]>>
    ELSE DecStr(n \div 10) \o <<Digits[(n % 10) + 1]>>

\* seq[::-1]
Reverse(seq) == [i \in DOMAIN seq |-> seq[Len(seq) + 1 - i]]

\* parts[:-n] and parts[-n:] as Python slices them: -0 is 0.
SliceUntilLast(parts, n) ==
    IF n = 0 THEN <<>> ELSE SubSeq(parts, 1, Len(parts) - n)

SliceLast(parts, n) ==
    IF n = 0 THEN parts ELSE SubSeq(parts, Len(parts) - n + 1, Len(parts))

-----------------------------------------------------------------------------
(* ipaddress: addresses, interfaces and networks                           *)

\* An address is its version and its parts, most significant first: the four
\* octets of an IPv4 address, the 32 nibbles of an IPv6 address.
IPv4(a, b, c, d) == [version |-> 4, parts |-> <<a, b, c, d>>]

IPv6(nibbles) == [version |-> 6, parts |-> nibbles]

\* The width in bits of one part.
PartBits(version) == IF version = 4 THEN 8 ELSE 4

\* ipaddress.ip_interface("<ip>/<prefixlen>")
IpInterface(ip, prefixlen) == [ip |-> ip, prefixlen |-> prefixlen]

\* Part i of the address ANDed with the netmask of the given length.
MaskedPart(ip, i, prefixlen) ==
    LET w    == PartBits(ip.version)
        over == prefixlen - (i - 1) * w
        keep == IF over <= 0 THEN 0 ELSE IF over >= w THEN w ELSE over
        unit == 2 ^ (w - keep)
    IN  (ip.parts[i] \div unit) * unit

\* ipaddress.ip_network("<ip>/<prefixlen>", strict=False): host bits cleared.
IpNetwork(ip, prefixlen) ==
    [version |-> ip.version,
     network_address |->
         [version |-> ip.version,
          parts |-> [i \in DOMAIN ip.parts |-> MaskedPart(ip, i, prefixlen)]],
     prefixlen |-> prefixlen]

\* ip in network (_BaseNetwork.__contains__): never across versions.
InNetwork(ip, network) ==
    /\ ip.version = network.version
    /\ \A i \in DOMAIN ip.parts :
           MaskedPart(ip, i, network.prefixlen) = network.network_address.parts[i]

\* ip_interface.network
InterfaceNetwork(ip_interface) == IpNetwork(ip_interface.ip, ip_interface.prefixlen)

-----------------------------------------------------------------------------
(* ForwardRecord, Records._generate_address_records                        *)

NETBOX_DEVICE_STATUSES ==
    {"active", "planned", "staged", "failed", "inventory", "decommissioning"}

NETBOX_DEVICE_MGMT_ONLY_STATUSES == {"inventory", "decommissioning"}

\* RecordBase.__init__: ip_interface is the parsed interface, ip its address.
ForwardRecord(z, h, ip_interface) ==
    [zone |-> z, hostname |-> h, interface |-> ip_interface, ip |-> ip_interface.ip]

\* Mutation of NotPhysicalServer: the role of the device is not looked at.
NotPhysicalServerIgnoringRole(dev, phys) ==
    ~phys \/ dev = None

\* The guard of the first branch: a single record under the given hostname.
NotPhysicalServer(dev, phys) ==
    ~phys \/ dev = None \/ dev.device_role /= "server"

\* Mutation of PrimaryAllowed: 'decommissioning' is not a management-only status.
PrimaryAllowedUnlessInventory(dev) ==
    dev.status /= "inventory"

\* The guard of the primary record of a physical server.
PrimaryAllowed(dev) ==
    dev.status \notin NETBOX_DEVICE_MGMT_ONLY_STATUSES

\* Mutation of AssetTagRecordWanted: name and asset tag compared as written.
AssetTagRecordWantedCaseSensitive(addr, dev) ==
    /\ addr.interface /= None
    /\ addr.interface.mgmt_only
    /\ \/ dev.name /= dev.asset_tag
       \/ dev.status \in NETBOX_DEVICE_MGMT_ONLY_STATUSES

\* The guard of the additional asset tag record.
AssetTagRecordWanted(addr, dev) ==
    /\ addr.interface /= None
    /\ addr.interface.mgmt_only
    /\ \/ Lower(dev.name) /= Lower(dev.asset_tag)
       \/ dev.status \in NETBOX_DEVICE_MGMT_ONLY_STATUSES

_generate_address_records(z, h, addr, dev, phys) ==
    IF NotPhysicalServer(dev, phys)
    THEN <<ForwardRecord(z, h, addr.address)>>
    ELSE (IF PrimaryAllowed(dev)
          THEN <<ForwardRecord(z, h, addr.address)>>
          ELSE <<>>)
         \o
         (IF AssetTagRecordWanted(addr, dev)
          THEN <<ForwardRecord(z, Lower(dev.asset_tag), addr.address)>>
          ELSE <<>>)

-----------------------------------------------------------------------------
(* Records._split_dns_name                                                 *)

Min(a, b) == IF a < b THEN a ELSE b

\* x in parts
InParts(x, parts) == \E i \in DOMAIN parts : parts[i] = x

\* The labels that each add one label to the zone.
ExtraZoneLabels == <<S("frack"), S("mgmt"), S("svc")>>

\* Mutation of max_len: every occurrence of one of the labels is counted.
max_len_per_occurrence(parts) ==
    2 + Cardinality({i \in DOMAIN parts : InParts(parts[i], ExtraZoneLabels)})

\* max_len = 2 + sum(1 for i in ('frack', 'mgmt', 'svc') if i in parts)
max_len(parts) ==
    2 + Cardinality({i \in DOMAIN ExtraZoneLabels : InParts(ExtraZoneLabels[i], parts)})

\* split_len = min(len(parts) - 1, max_len)
split_len(parts) == Min(Len(parts) - 1, max_len(parts))

\* The prefixes of netbox.prefixes that contain the IP of the address.
MatchingPrefixes(ip, prefixes) == {p \in prefixes : InNetwork(ip, p.network)}

\* prefix_key = min(matching_prefixes, key=attrgetter('prefixlen')): the keys of
\* a dict differ, so matching networks of one version differ in their length.
SitePrefix(matching) ==
    CHOOSE p \in matching :
        \A q \in matching : p.network.prefixlen <= q.network.prefixlen

\* The suffix taken from the device the address is attached to, when no prefix
\* matches.  A virtualization interface has no device: the attribute access
\* address.interface.device.site raises AttributeError.
DeviceSiteSuffix(addr) ==
    IF addr.interface /= None
    THEN IF addr.interface.physical
         THEN Return(addr.interface.device.site.slug)
         ELSE Raise("AttributeError")
    ELSE Return(S("global"))

\* The suffix given by the prefix: the slug of its site, 'global' without one.
PrefixSiteSuffix(prefix) ==
    IF prefix.site /= None THEN Return(prefix.site.slug) ELSE Return(S("global"))

\* The suffix of the zone file name of a zone that does not end in '.wmnet',
\* given the prefixes that contain the address.
ZoneSuffix(addr, matching) ==
    IF matching /= {}
    THEN PrefixSiteSuffix(SitePrefix(matching))
    ELSE DeviceSiteSuffix(addr)

\* zone_name += '-' + suffix, unless finding the suffix raised.
SuffixedZone(hostname, zone, suffix) ==
    IF suffix.kind = "raise"
    THEN suffix
    ELSE [kind |-> "return", hostname |-> hostname, zone |-> zone,
          zone_name |-> zone \o S("-") \o suffix.value]

\* The return value for the hostname and zone the name was split into.
SplitResult(addr, prefixes, hostname, zone) ==
    IF ~EndsWith(zone, S(".wmnet"))
    THEN SuffixedZone(hostname, zone,
                      ZoneSuffix(addr, MatchingPrefixes(addr.address.ip, prefixes)))
    ELSE [kind |-> "return", hostname |-> hostname, zone |-> zone, zone_name |-> zone]

\* hostname = '.'.join(parts[:-split_len]); zone = '.'.join(parts[-split_len:])
SplitParts(addr, prefixes, parts) ==
    SplitResult(addr, prefixes,
                Join(SliceUntilLast(parts, split_len(parts)), S(".")),
                Join(SliceLast(parts, split_len(parts)), S(".")))

_split_dns_name(addr, prefixes) ==
    SplitParts(addr, prefixes, Split(Strip(addr.dns_name), "."))

-----------------------------------------------------------------------------
(* ipaddress: str() and reverse_pointer                                    *)

HexDigits == S("0123456789abcdef")

\* str(IPv4Address): the octets in decimal, dotted.
StrIPv4(ip) == Join([i \in DOMAIN ip.parts |-> DecStr(ip.parts[i])], S("."))

\* str(IPv4Network): '<network address>/<prefixlen>'
StrIPv4Network(network) ==
    StrIPv4(network.network_address) \o S("/") \o DecStr(network.prefixlen)

\* IPv4Address.reverse_pointer: the octets reversed, then in-addr.arpa.
\* IPv6Address.reverse_pointer: the 32 nibbles reversed, then ip6.arpa.
AddressReversePointer(ip) ==
    IF ip.version = 4
    THEN Join(Reverse(Split(StrIPv4(ip), ".")), S(".")) \o S(".in-addr.arpa")
    ELSE Join(Reverse([i \in DOMAIN ip.parts |-> <<HexDigits[ip.parts[i] + 1]>>]),
              S(".")) \o S(".ip6.arpa")

\* IPv4Network.reverse_pointer: str(network) split at the dots and reversed,
\* so that the first label is '<last octet>/<prefixlen>'.
NetworkReversePointer(network) ==
    Join(Reverse(Split(StrIPv4Network(network), ".")), S(".")) \o S(".in-addr.arpa")

\* str.split(sep, 1) of a string that holds sep: the head and the rest.
SplitOnce(s, sep) ==
    LET i == CHOOSE k \in DOMAIN s : s[k] = sep /\ \A j \in 1..(k - 1) : s[j] /= sep
    IN  <<SubSeq(s, 1, i - 1), SubSeq(s, i + 1, Len(s))>>

-----------------------------------------------------------------------------
(* ReverseRecord, ForwardRecord.get_reverse                                *)

ReverseRecord(z, h, ip_interface, pointer) ==
    [kind |-> "ReverseRecord", zone |-> z, hostname |-> h,
     interface |-> ip_interface, ip |-> ip_interface.ip, pointer |-> pointer]

\* Mutation of matching_prefixes: every prefix of the version of the address.
matching_prefixes_of_version(ip, prefixes) ==
    {p \in prefixes : p.network.version = ip.version}

\* matching_prefixes = [prefix for prefix in prefixes if self.ip in prefix]
matching_prefixes(ip, prefixes) == {p \in prefixes : InNetwork(ip, p.network)}

\* Mutation of sorted_prefixes_keys: sorted without reverse=True.
RECURSIVE sorted_prefixes_keys_ascending(_)
sorted_prefixes_keys_ascending(matching) ==
    IF matching = {} THEN <<>>
    ELSE LET first == CHOOSE p \in matching :
                          \A q \in matching : p.network.prefixlen <= q.network.prefixlen
         IN  <<first>> \o sorted_prefixes_keys_ascending(matching \ {first})

\* sorted(matching_prefixes, key=attrgetter('prefixlen'), reverse=True): the
\* matching networks of one version all differ in their length.
RECURSIVE sorted_prefixes_keys(_)
sorted_prefixes_keys(matching) ==
    IF matching = {} THEN <<>>
    ELSE LET first == CHOOSE p \in matching :
                          \A q \in matching : q.network.prefixlen <= p.network.prefixlen
         IN  <<first>> \o sorted_prefixes_keys(matching \ {first})

\* Mutation of matched_prefix: no consolidation into a parent prefix.
matched_prefix_unconsolidated(sorted) == Return(sorted[1])

\* The prefix the zone of a sub-/24 address is taken from: the first of the
\* sorted prefixes, or when it is longer than /29 the first one of length
\* <= 29; next() raises StopIteration when there is none.
matched_prefix(sorted) ==
    IF sorted[1].network.prefixlen > 29
    THEN IF \E i \in DOMAIN sorted : sorted[i].network.prefixlen <= 29
         THEN Return(sorted[CHOOSE i \in DOMAIN sorted :
                                /\ sorted[i].network.prefixlen <= 29
                                /\ \A j \in 1..(i - 1) : sorted[j].network.prefixlen > 29])
         ELSE Raise("StopIteration")
    ELSE Return(sorted[1])

\* Mutation of OverriddenZone: a /24 prefix is written in the RFC 2317 form too.
OverriddenZoneFrom24(network, zone) ==
    IF network.prefixlen >= 24
    THEN Replace(NetworkReversePointer(network), "/", S("-"))
    ELSE zone

\* The zone of a sub-/24 address given the matched prefix and the default zone.
OverriddenZone(network, zone) ==
    IF network.prefixlen > 24
    THEN Replace(NetworkReversePointer(network), "/", S("-"))
    ELSE IF network.prefixlen = 24
    THEN SplitOnce(AddressReversePointer(network.network_address), ".")[2]
    ELSE zone

\* Mutation of ReverseHostname: the hostname without the zone.
ReverseHostnameBare(record) == record.hostname

\* hostname of the reverse record: '.'.join((self.hostname, self.zone))
ReverseHostname(record) == Join(<<record.hostname, record.zone>>, S("."))

\* Mutation of ReverseV6: the zone is split at the prefix length of the interface.
ReverseV6AtInterfaceLength(record, parts) ==
    ReverseRecord(Join(SubSeq(parts, 33 - record.interface.prefixlen \div 4, Len(parts)),
                       S(".")),
                  ReverseHostname(record), record.interface,
                  Join(SubSeq(parts, 1, 32 - record.interface.prefixlen \div 4), S(".")))

\* IPv6: the zone is split at /64, the pointer is the last 16 nibbles.
ReverseV6(record, parts) ==
    ReverseRecord(Join(SubSeq(parts, 17, Len(parts)), S(".")), ReverseHostname(record),
                  record.interface, Join(SubSeq(parts, 1, 16), S(".")))

\* IPv4 with an interface longer than /24: the zone of the matched prefix,
\* unless looking for it raised.
ReverseSubnet(record, pointer, zone, matched) ==
    IF matched.kind = "raise"
    THEN matched
    ELSE ReverseRecord(OverriddenZone(matched.value.network, zone),
                       ReverseHostname(record), record.interface, pointer)

\* IPv4: the pointer is the last octet, the zone by default the /24.
ReverseV4(record, matching, split) ==
    IF InterfaceNetwork(record.interface).prefixlen > 24
    THEN ReverseSubnet(record, split[1], split[2],
                       matched_prefix(sorted_prefixes_keys(matching)))
    ELSE ReverseRecord(split[2], ReverseHostname(record), record.interface, split[1])

\* The reverse record given the prefixes that contain the IP.
ReverseOf(record, matching) ==
    IF matching = {} THEN None
    ELSE IF record.ip.version = 6
    THEN ReverseV6(record, Split(AddressReversePointer(record.ip), "."))
    ELSE ReverseV4(record, matching, SplitOnce(AddressReversePointer(record.ip), "."))

get_reverse(record, prefixes) ==
    ReverseOf(record, matching_prefixes(record.ip, prefixes))

-----------------------------------------------------------------------------
(* Records.generate                                                        *)

\* Mutation of RecordEq: the prefix length of the interface is compared too.
RecordEqWithInterface(r1, r2) ==
    r1.zone = r2.zone /\ r1.hostname = r2.hostname /\ r1.interface = r2.interface

\* RecordBase.__eq__ and __hash__: zone, hostname and ip, not the prefix length.
RecordEq(r1, r2) ==
    r1.zone = r2.zone /\ r1.hostname = r2.hostname /\ r1.ip = r2.ip

\* self.zones[...][zone].add(record): a set keeps the element it already holds.
\* The zone sets of one kind are the set of their (zone file, record) entries.
ZoneAdd(entries, zone, record) ==
    IF \E e \in entries : e.zone = zone /\ RecordEq(e.record, record)
    THEN entries
    ELSE entries \cup {[zone |-> zone, record |-> record]}

\* self.zones['reverse'][reverse.zone].add(reverse) when reverse is not None;
\* an exception of get_reverse leaves the record in its direct zone.
AddReverse(direct, reverse_entries, reverse) ==
    IF reverse.kind = "raise"
    THEN [kind |-> "raise", exc |-> reverse.exc,
          zones |-> [direct |-> direct, reverse |-> reverse_entries]]
    ELSE IF reverse = None
    THEN [kind |-> "return", zones |-> [direct |-> direct, reverse |-> reverse_entries]]
    ELSE [kind |-> "return",
          zones |-> [direct |-> direct,
                     reverse |-> ZoneAdd(reverse_entries, reverse.zone, reverse)]]

\* The body of 'for record in records': the record goes to its direct zone, its
\* reverse record, when there is one, to the reverse zone.
AddRecord(z, zone_name, record, prefixes) ==
    AddReverse(ZoneAdd(z.direct, zone_name, record), z.reverse,
               get_reverse(record, prefixes))

\* 'for record in records', stopped by an exception: at most two records.
AddSecond(added, zone_name, records, prefixes) ==
    IF added.kind = "raise" \/ Len(records) < 2
    THEN added
    ELSE AddRecord(added.zones, zone_name, records[2], prefixes)

AddRecords(z, zone_name, records, prefixes) ==
    IF records = <<>>
    THEN [kind |-> "return", zones |-> z]
    ELSE AddSecond(AddRecord(z, zone_name, records[1], prefixes),
                   zone_name, records, prefixes)

\* The state of the loops of generate(): the zones, the count of forward
\* records, and the exception that ended the loops, if any.
LoopState(kind, exc, z, count) ==
    [kind |-> kind, exc |-> exc, zones |-> z, records_count |-> count]

\* records_count += len(records), then the records are added.
CountAndAdd(count, records, added) ==
    LoopState(added.kind, IF added.kind = "raise" THEN added.exc ELSE "",
              added.zones, count + Len(records))

AddressRecords(state, prefixes, split, records) ==
    CountAndAdd(state.records_count, records,
                AddRecords(state.zones, split.zone_name, records, prefixes))

\* The body of the inner loop for one address, after the name was split.
AddressSplit(state, device_data, address, prefixes, split) ==
    IF split.kind = "raise"
    THEN LoopState("raise", split.exc, state.zones, state.records_count)
    ELSE AddressRecords(state, prefixes, split,
                        _generate_address_records(split.zone, split.hostname, address,
                                                  device_data.device,
                                                  device_data.physical))

\* The body of the inner loop for one address; nothing after an exception.
GenerateAddress(state, device_data, address, prefixes) ==
    IF state.kind = "raise"
    THEN state
    ELSE AddressSplit(state, device_data, address, prefixes,
                      _split_dns_name(address, prefixes))

\* The two loops of generate() over the (device data, address) pairs in the
\* order the dict and the sets are iterated.
RECURSIVE GenerateLoop(_, _, _)
GenerateLoop(order, prefixes, state) ==
    IF order = <<>> THEN state
    ELSE GenerateLoop(Tail(order), prefixes,
                      GenerateAddress(state, Head(order)[1], Head(order)[2], prefixes))

\* The value generate() leaves: None and whether the CAUTION error was logged,
\* or the exception.
GenerateReturn(done, min_records) ==
    IF done.kind = "raise"
    THEN Raise(done.exc)
    ELSE [kind |-> "return", value |-> None,
          caution |-> done.records_count < min_records]

\* Every order in which a set can be iterated.
RECURSIVE Orderings(_)
Orderings(set) ==
    IF set = {} THEN {<<>>}
    ELSE UNION {{<<x>> \o rest : rest \in Orderings(set \ {x})} : x \in set}

\* The orders of the pairs for devices iterated in the order ds.
RECURSIVE PairOrders(_)
PairOrders(ds) ==
    IF ds = <<>> THEN {<<>>}
    ELSE {[i \in DOMAIN o |-> <<Head(ds), o[i]>>] \o rest :
              o \in Orderings(Head(ds).addresses), rest \in PairOrders(Tail(ds))}

\* The orders in which generate() may visit the addresses of netbox.devices.
GenerateOrders(devices) == UNION {PairOrders(ds) : ds \in Orderings(devices)}

-----------------------------------------------------------------------------
(* validate_delta, validate                                                *)

WARNING_PERCENTAGE_LINES_CHANGED == 3

ERROR_PERCENTAGE_LINES_CHANGED == 5

WARNING_PERCENTAGE_FILES_CHANGED == 8

ERROR_PERCENTAGE_FILES_CHANGED == 15

\* A record handed to the logging module: its level, the message (by a key)
\* and what the message is about.
LogRecord(level, msg, what) ==
    [kind |-> "log", level |-> level, msg |-> msg, what |-> what]

\* delta > threshold for delta = changed * 100 / existing, existing > 0: the
\* true division gives the float nearest to the quotient, which for counts of
\* files and lines is above the integer threshold exactly when the quotient is.
DeltaOver(changed, existing, threshold) == changed * 100 > threshold * existing

\* Mutation of validate_delta: the thresholds themselves already alert.
validate_delta_inclusive(changed, existing, warning, error, what) ==
    IF existing = 0 THEN <<>>
    ELSE IF changed * 100 >= error * existing
    THEN <<LogRecord("ERROR", "over the error thresold", what)>>
    ELSE IF changed * 100 >= warning * existing
    THEN <<LogRecord("WARNING", "over the warning thresold", what)>>
    ELSE <<LogRecord("DEBUG", "modified", what)>>

\* validate_delta: the log records it emits; it returns None.
validate_delta(changed, existing, warning, error, what) ==
    IF existing = 0 THEN <<>>
    ELSE IF DeltaOver(changed, existing, error)
    THEN <<LogRecord("ERROR", "over the error thresold", what)>>
    ELSE IF DeltaOver(changed, existing, warning)
    THEN <<LogRecord("WARNING", "over the warning thresold", what)>>
    ELSE <<LogRecord("DEBUG", "modified", what)>>

\* validate: the log records it emits; it returns None.
validate(files, lines, delta) ==
    <<LogRecord("INFO", "Validating generated data", "")>>
        \o validate_delta(delta.files, files, WARNING_PERCENTAGE_FILES_CHANGED,
                          ERROR_PERCENTAGE_FILES_CHANGED, "files")
        \o validate_delta(delta.lines, lines, WARNING_PERCENTAGE_LINES_CHANGED,
                          ERROR_PERCENTAGE_LINES_CHANGED, "lines")
        \o <<LogRecord("INFO", "Commit details", "")>>

-----------------------------------------------------------------------------
(* Netbox objects the calls are applied to                                 *)

Site(slug) == [kind |-> "Site", slug |-> slug]

\* dcim interface of a device: its mgmt_only flag and its device with its site
\* (a device always has a site in Netbox).
PhysicalInterface(mgmt_only, slug) ==
    [kind |-> "Interface", physical |-> TRUE, mgmt_only |-> mgmt_only,
     device |-> [site |-> Site(slug)]]

\* An entry of netbox.prefixes: the network (the key) and the site of the
\* prefix, None when the prefix has no site.
Prefix(network, site) == [network |-> network, site |-> site]

\* virtualization interface of a VM: it has a virtual_machine and no device.
VirtualInterface == [kind |-> "Interface", physical |-> FALSE]

Device(name, asset_tag, role, status) ==
    [kind |-> "Device", name |-> name, asset_tag |-> asset_tag,
     device_role |-> role, status |-> status]

Address(ip_interface, dns_name, interface) ==
    [address |-> ip_interface, dns_name |-> dns_name, interface |-> interface]

NoRet == [kind |-> "pending"]

NoArgs == [kind |-> "none"]

EmptyNetbox == [devices |-> {}, prefixes |-> {}]

EmptyZones == [direct |-> {}, reverse |-> {}]

-----------------------------------------------------------------------------
(* SpecRecords: _generate_address_records applied to one address           *)

DeviceNames == {S("db1001"), S("wmf1234"), S("WMF1234")}

AssetTags == {S("WMF1234"), S("WMF5678")}

DeviceRoles == {"server", "asw"}

RecordsDevices ==
    {None} \cup
    {Device(n, t, r, s) : n \in DeviceNames, t \in AssetTags,
                          r \in DeviceRoles, s \in NETBOX_DEVICE_STATUSES}

RecordsInterfaces ==
    {None, VirtualInterface} \cup {PhysicalInterface(m, S("eqiad")) : m \in BOOLEAN}

RecordsHostnames == {S("db1001"), S("wmf1234")}

RecordsAddress == IpInterface(IPv4(10, 0, 0, 5), 24)

\* The interface of an address under a physical device is a dcim interface.
RecordsArgs ==
    {[zone |-> S("mgmt.eqiad.wmnet"),
      hostname |-> h,
      address |-> Address(RecordsAddress, h \o S(".mgmt.eqiad.wmnet"), i),
      device |-> d,
      physical |-> p] :
        h \in RecordsHostnames, i \in RecordsInterfaces,
        d \in RecordsDevices, p \in BOOLEAN}

InitRecords ==
    /\ pc = "call"
    /\ args \in {a \in RecordsArgs :
                    (a.physical /\ a.device /= None) => a.address.interface /= VirtualInterface}
    /\ ret = NoRet
    /\ netbox = EmptyNetbox
    /\ zones = EmptyZones
    /\ records_count = 0
    /\ NoWorkflow

GenerateAddressRecords ==
    /\ pc = "call"
    /\ ret' = _generate_address_records(
                  args.zone, args.hostname, args.address, args.device, args.physical)
    /\ pc' = "return"
    /\ UNCHANGED <<args, netbox, zones, records_count>>
    /\ UNCHANGED workflow

NextRecords == GenerateAddressRecords

SpecRecords == InitRecords /\ [][NextRecords]_vars

-----------------------------------------------------------------------------
(* SpecSplit: _split_dns_name applied to one address                       *)

\* The longest DNS name, in labels.
MaxLabels == 5

\* The most prefixes configured at once.
MaxPrefixes == 3

SplitLabels ==
    {S("foo"), S("mgmt"), S("frack"), S("svc"), S("eqiad"), S("wmnet")}

RECURSIVE LabelSeqs(_)
LabelSeqs(n) ==
    IF n = 0 THEN {<<>>}
    ELSE {<<l>> \o rest : l \in SplitLabels, rest \in LabelSeqs(n - 1)}

\* Every name of one to MaxLabels labels.
SplitNames == UNION {LabelSeqs(n) : n \in 1..MaxLabels}

\* The whitespace around a DNS name as stored in Netbox.
SplitPads == {<<S(""), S("")>>, <<S(" "), S("\n")>>}

\* Names whose zone is looked up for a site.
SiteNames ==
    {<<S("foo"), S("wikimedia"), S("org")>>,
     <<S("foo"), S("eqiad"), S("wmnet")>>,
     <<S("foo"), S("wmnet")>>,
     <<S("foo"), S("svc"), S("wikimedia"), S("org")>>}

PrefixPool ==
    {Prefix(IpNetwork(IPv4(10, 0, 0, 0), 8), Site(S("eqiad"))),
     Prefix(IpNetwork(IPv4(10, 0, 0, 0), 16), None),
     Prefix(IpNetwork(IPv4(10, 0, 0, 0), 24), Site(S("codfw"))),
     Prefix(IpNetwork(IPv4(10, 0, 0, 0), 28), None),
     Prefix(IpNetwork(IPv4(10, 0, 1, 0), 24), Site(S("esams")))}

PrefixConfigs == {c \in SUBSET PrefixPool : Cardinality(c) <= MaxPrefixes}

SplitAddresses ==
    {IpInterface(IPv4(10, 0, 0, 5), 24),
     IpInterface(IPv4(10, 0, 1, 9), 24),
     IpInterface(IPv4(192, 0, 2, 7), 24)}

SplitInterfaces == {None, VirtualInterface, PhysicalInterface(FALSE, S("ulsfo"))}

\* The call: the address, and the labels and padding its DNS name is made of.
SplitCall(labels, pad, ip_interface, interface) ==
    [labels |-> labels,
     address |-> Address(ip_interface,
                         pad[1] \o Join(labels, S(".")) \o pad[2],
                         interface)]

InitSplit ==
    /\ pc = "call"
    /\ \/ /\ args \in {SplitCall(l, p, IpInterface(IPv4(10, 0, 0, 5), 24), None) :
                          l \in SplitNames, p \in SplitPads}
          /\ netbox = [devices |-> {}, prefixes |-> {}]
       \/ /\ args \in {SplitCall(l, <<S(""), S("")>>, a, i) :
                          l \in SiteNames, a \in SplitAddresses, i \in SplitInterfaces}
          /\ netbox \in {[devices |-> {}, prefixes |-> c] : c \in PrefixConfigs}
    /\ ret = NoRet
    /\ zones = EmptyZones
    /\ records_count = 0
    /\ NoWorkflow

SplitDnsName ==
    /\ pc = "call"
    /\ ret' = _split_dns_name(args.address, netbox.prefixes)
    /\ pc' = "return"
    /\ UNCHANGED <<args, netbox, zones, records_count>>
    /\ UNCHANGED workflow

NextSplit == SplitDnsName

SpecSplit == InitSplit /\ [][NextSplit]_vars

-----------------------------------------------------------------------------
(* SpecReverse: get_reverse applied to one forward record                  *)

Zeros(n) == [i \in 1..n |-> 0]

\* 2620:0:861:1::/64 and 2620:0:861:1::5, 2001:db8::7 outside of it.
V6Net == <<2, 6, 2, 0, 0, 0, 0, 0, 0, 8, 6, 1, 0, 0, 0, 1>>

V6Host == IPv6(V6Net \o Zeros(15) \o <<5>>)

V6External == IPv6(<<2, 0, 0, 1, 0, 13, 11, 8>> \o Zeros(23) \o <<7>>)

ReversePrefixPool ==
    {Prefix(IpNetwork(IPv4(10, 0, 0, 0), 8), None),
     Prefix(IpNetwork(IPv4(10, 0, 0, 0), 24), None),
     Prefix(IpNetwork(IPv4(10, 0, 0, 0), 25), None),
     Prefix(IpNetwork(IPv4(10, 0, 0, 0), 28), None),
     Prefix(IpNetwork(IPv4(10, 0, 0, 4), 30), None),
     Prefix(IpNetwork(IPv4(10, 0, 0, 5), 32), None),
     Prefix(IpNetwork(IPv4(10, 0, 0, 192), 27), None),
     Prefix(IpNetwork(IPv4(10, 0, 1, 0), 24), None),
     Prefix(IpNetwork(V6Host, 64), None),
     Prefix(IpNetwork(V6Host, 48), None),
     Prefix(IpNetwork(V6Host, 128), None)}

ReversePrefixConfigs ==
    {c \in SUBSET ReversePrefixPool : Cardinality(c) <= MaxPrefixes}

ReverseInterfaces ==
    {IpInterface(IPv4(10, 0, 0, 5), l) : l \in {16, 24, 25, 28, 30, 32}} \cup
    {IpInterface(IPv4(10, 0, 0, 200), l) : l \in {24, 27}} \cup
    {IpInterface(IPv4(192, 0, 2, 7), 24),
     IpInterface(V6Host, 64), IpInterface(V6Host, 128), IpInterface(V6External, 64)}

InitReverse ==
    /\ pc = "call"
    /\ args \in {[record |-> ForwardRecord(S("eqiad.wmnet"), S("db1001"), i)] :
                    i \in ReverseInterfaces}
    /\ netbox \in {[devices |-> {}, prefixes |-> c] : c \in ReversePrefixConfigs}
    /\ ret = NoRet
    /\ zones = EmptyZones
    /\ records_count = 0
    /\ NoWorkflow

GetReverse ==
    /\ pc = "call"
    /\ ret' = get_reverse(args.record, netbox.prefixes)
    /\ pc' = "return"
    /\ UNCHANGED <<args, netbox, zones, records_count>>
    /\ UNCHANGED workflow

NextReverse == GetReverse

SpecReverse == InitReverse /\ [][NextReverse]_vars

-----------------------------------------------------------------------------
(* SpecGenerate: generate() applied to a collected Netbox                  *)

\* The most addresses collected over all devices.
MaxAddresses == 3

\* The largest configured min_records.
MaxMinRecords == 2

NO_DEVICE_NAME == S("UNASSIGNED_ADDRESSES")

\* An entry of netbox.devices: the name (the key) and the device data.
DeviceData(name, device, physical, addresses) ==
    [name |-> name, device |-> device, physical |-> physical, addresses |-> addresses]

VirtualMachine(name) == [kind |-> "VirtualMachine", name |-> name]

\* Addresses of the server db1001: primary, management and IPv6.
ServerAddresses ==
    {Address(IpInterface(IPv4(10, 0, 0, 5), 24), S("db1001.eqiad.wmnet"),
             PhysicalInterface(FALSE, S("eqiad"))),
     Address(IpInterface(IPv4(10, 0, 1, 9), 24), S("db1001.mgmt.eqiad.wmnet"),
             PhysicalInterface(TRUE, S("eqiad"))),
     Address(IpInterface(V6Host, 64), S("db1001.eqiad.wmnet"),
             PhysicalInterface(FALSE, S("eqiad")))}

\* Addresses without an interface, outside of every configured prefix.
UnassignedAddresses ==
    {Address(IpInterface(IPv4(192, 0, 2, 7), 24), S("foo.wikimedia.org"), None),
     Address(IpInterface(V6External, 64), S("foo.wikimedia.org"), None)}

\* Addresses of the virtual machine vm1.
VmAddresses ==
    {Address(IpInterface(IPv4(10, 0, 0, 6), 28), S("vm1.eqiad.wmnet"), VirtualInterface),
     Address(IpInterface(IPv4(192, 0, 2, 9), 24), S("vm1.wikimedia.org"), VirtualInterface)}

GeneratePrefixPool ==
    {Prefix(IpNetwork(IPv4(10, 0, 0, 0), 24), Site(S("eqiad"))),
     Prefix(IpNetwork(IPv4(10, 0, 0, 0), 28), Site(S("eqiad"))),
     Prefix(IpNetwork(IPv4(10, 0, 0, 4), 30), Site(S("eqiad"))),
     Prefix(IpNetwork(IPv4(10, 0, 1, 0), 24), None),
     Prefix(IpNetwork(V6Host, 64), Site(S("eqiad")))}

GenerateStatuses == {"active", "decommissioning"}

\* The entries of a server or of a VM: none, or one with some of its addresses.
ServerEntries ==
    {{}} \cup
    {{DeviceData(S("db1001"), Device(S("db1001"), S("WMF1234"), "server", st), TRUE, a)} :
         st \in GenerateStatuses, a \in SUBSET ServerAddresses}

VmEntries ==
    {{}} \cup
    {{DeviceData(S("vm1"), VirtualMachine(S("vm1")), FALSE, a)} :
         a \in SUBSET VmAddresses}

\* The collected devices: the sentinel for unassigned addresses is always
\* there; a device or VM is there with or without addresses.
InitGenerate ==
    /\ pc = "call"
    /\ args \in {[min_records |-> m] : m \in 0..MaxMinRecords}
    /\ \E u \in SUBSET UnassignedAddresses, s \in ServerEntries, v \in VmEntries,
          c \in SUBSET GeneratePrefixPool :
           LET ds == {DeviceData(NO_DEVICE_NAME, None, FALSE, u)} \cup s \cup v
           IN  /\ Cardinality(UNION {d.addresses : d \in ds}) <= MaxAddresses
               /\ Cardinality(c) <= MaxPrefixes
               /\ netbox = [devices |-> ds, prefixes |-> c]
    /\ ret = NoRet
    /\ zones = EmptyZones
    /\ records_count = 0
    /\ NoWorkflow

\* The state generate() is left in when the addresses are visited in the order.
Generated(done) ==
    /\ zones' = done.zones
    /\ records_count' = done.records_count
    /\ ret' = GenerateReturn(done, args.min_records)

\* generate(): the loops, then the CAUTION error when the records are fewer
\* than min_records.  An exception leaves the zones as the loops left them.
Generate ==
    /\ pc = "call"
    /\ \E order \in GenerateOrders(netbox.devices) :
           Generated(GenerateLoop(order, netbox.prefixes,
                                  LoopState("return", "", zones, 0)))
    /\ pc' = "return"
    /\ UNCHANGED <<args, netbox>>
    /\ UNCHANGED workflow

NextGenerate == Generate

SpecGenerate == InitGenerate /\ [][NextGenerate]_vars

-----------------------------------------------------------------------------
(* SpecValidate: validate_delta and validate applied to counts             *)

\* The largest number of changed files or lines.
MaxChanged == 17

\* The largest number of existing files or lines given to validate_delta.
MaxExisting == 100

\* The thresholds validate_delta is called with in this file.
ValidateThresholds ==
    {[warning |-> WARNING_PERCENTAGE_FILES_CHANGED,
      error |-> ERROR_PERCENTAGE_FILES_CHANGED, what |-> "files"],
     [warning |-> WARNING_PERCENTAGE_LINES_CHANGED,
      error |-> ERROR_PERCENTAGE_LINES_CHANGED, what |-> "lines"]}

ValidateDeltaArgs ==
    {[call |-> "validate_delta", changed |-> c, existing |-> e,
      warning |-> th.warning, error |-> th.error, what |-> th.what] :
         c \in 0..MaxChanged, e \in 0..MaxExisting, th \in ValidateThresholds}

\* get_file_stats of an empty and of a populated checkout, and the totals of
\* the commit's stats.
ValidateArgs ==
    {[call |-> "validate", files |-> f, lines |-> l,
      delta |-> [files |-> df, lines |-> dl]] :
         f \in {0, 100}, l \in {0, 100},
         df \in 0..MaxChanged, dl \in 0..MaxChanged}

InitValidate ==
    /\ pc = "call"
    /\ args \in ValidateDeltaArgs \cup ValidateArgs
    /\ ret = NoRet
    /\ netbox = EmptyNetbox
    /\ zones = EmptyZones
    /\ records_count = 0
    /\ NoWorkflow

ValidateDelta ==
    /\ pc = "call"
    /\ args.call = "validate_delta"
    /\ events' = events \o validate_delta(args.changed, args.existing, args.warning,
                                          args.error, args.what)
    /\ ret' = None
    /\ pc' = "return"
    /\ UNCHANGED <<args, netbox, zones, records_count, repo, tmpdir, frame>>

Validate ==
    /\ pc = "call"
    /\ args.call = "validate"
    /\ events' = events \o validate(args.files, args.lines, args.delta)
    /\ ret' = None
    /\ pc' = "return"
    /\ UNCHANGED <<args, netbox, zones, records_count, repo, tmpdir, frame>>

NextValidate == ValidateDelta \/ Validate

SpecValidate == InitValidate /\ [][NextValidate]_vars

-----------------------------------------------------------------------------
(* main, run_commit, commit_changes, push: the commit and push workflow    *)

EXCEPTION_RETURN_CODE == 2

ABORT_RETURN_CODE == 3

PUSH_ERROR_RETURN_CODE == 4

INVALID_SHA1_RETURN_CODE == 5

NO_CHANGES_RETURN_CODE == 99

\* An operation on the working checkout or its origin.
GitOp(op) == [kind |-> "git", op |-> op]

\* input(prompt) and the line the operator answered.
Input(prompt, answer) == [kind |-> "input", prompt |-> prompt, answer |-> answer]

\* print() to stdout.
PrintOut(what, value) == [kind |-> "print", what |-> what, value |-> value]

\* shutil.rmtree(tmpdir, ignore_errors=True)
Rmtree == [kind |-> "rmtree"]

\* The local variables of main() when the try block is entered.
MainFrame ==
    [ret_code |-> EXCEPTION_RETURN_CODE, batch_status |-> None,
     commit |-> None, files |-> 0, lines |-> 0]

\* git.objects.commit.Commit: its SHA1 and the totals of its stats.
Commit(hexsha, files, lines) ==
    [kind |-> "Commit", hexsha |-> hexsha, stats |-> [files |-> files, lines |-> lines]]

\* 'except Exception' of main(): an exception that leaves the try block is
\* logged and the return code is EXCEPTION_RETURN_CODE; 'finally' comes next.
ExceptAfter(done, exc) ==
    /\ events' = events \o done \o <<LogRecord("ERROR", "Failed to run", exc)>>
    /\ frame' = [frame EXCEPT !.ret_code = EXCEPTION_RETURN_CODE]
    /\ pc' = "finally"

Except(exc) == ExceptAfter(<<>>, exc)

\* batch_status, ret_code = run_commit(...): run_commit returned.
RunCommitReturn(batch_status, ret_code) ==
    /\ frame' = [frame EXCEPT !.batch_status = batch_status, !.ret_code = ret_code]
    /\ pc' = "finally"

\* parse_args(): --icinga-check implies --batch.
ParseArgs ==
    /\ pc = "parse_args"
    /\ args' = IF args.command = "commit" /\ args.icinga_check
               THEN [args EXCEPT !.batch = TRUE]
               ELSE args
    /\ pc' = "main"
    /\ UNCHANGED <<ret, netbox, zones, records_count, events, repo, tmpdir, frame>>

\* main() up to the try block: in Icinga check mode a fresh state file ends the
\* run with 0 (check_icinga_should_run reads the file and the clock).
EnterMain ==
    /\ pc = "main"
    /\ \/ /\ args.command = "commit" /\ args.icinga_check
          /\ ret' = Return(0)
          /\ pc' = "done"
          /\ UNCHANGED frame
       \/ /\ frame' = MainFrame
          /\ pc' = IF args.command = "commit" THEN "mkdtemp" ELSE "push"
          /\ UNCHANGED ret
    /\ UNCHANGED <<args, netbox, zones, records_count, events, repo, tmpdir>>

\* tmpdir = tempfile.mkdtemp(prefix=TMP_DIR_PREFIX); when it raises, the name
\* tmpdir stays unbound.
Mkdtemp ==
    /\ pc = "mkdtemp"
    /\ \/ /\ tmpdir' = [bound |-> TRUE, on_disk |-> TRUE, snippets |-> FALSE]
          /\ pc' = "collect"
          /\ UNCHANGED <<events, frame>>
       \/ /\ Except("OSError")
          /\ UNCHANGED tmpdir
    /\ UNCHANGED <<args, ret, netbox, zones, records_count, repo>>

\* The snapshots netbox.collect() may gather: nothing but the sentinel; the
\* server db1001 with its primary and its management address; an address
\* without interface; the VM vm1 with 10.0.0.6/28 inside a /30 only.
MainNetboxes ==
    {[devices |-> {DeviceData(NO_DEVICE_NAME, None, FALSE, {})}, prefixes |-> {}],
     [devices |-> {DeviceData(NO_DEVICE_NAME, None, FALSE, {}),
                   DeviceData(S("db1001"),
                              Device(S("db1001"), S("WMF1234"), "server", "active"), TRUE,
                              {Address(IpInterface(IPv4(10, 0, 0, 5), 24),
                                       S("db1001.eqiad.wmnet"),
                                       PhysicalInterface(FALSE, S("eqiad"))),
                               Address(IpInterface(IPv4(10, 0, 1, 9), 24),
                                       S("db1001.mgmt.eqiad.wmnet"),
                                       PhysicalInterface(TRUE, S("eqiad")))})},
      prefixes |-> {Prefix(IpNetwork(IPv4(10, 0, 0, 0), 24), Site(S("eqiad"))),
                    Prefix(IpNetwork(IPv4(10, 0, 1, 0), 24), None)}],
     [devices |-> {DeviceData(NO_DEVICE_NAME, None, FALSE,
                              {Address(IpInterface(IPv4(192, 0, 2, 7), 24),
                                       S("foo.wikimedia.org"), None)})},
      prefixes |-> {Prefix(IpNetwork(IPv4(10, 0, 0, 0), 24), Site(S("eqiad")))}],
     [devices |-> {DeviceData(NO_DEVICE_NAME, None, FALSE, {}),
                   DeviceData(S("vm1"), VirtualMachine(S("vm1")), FALSE,
                              {Address(IpInterface(IPv4(10, 0, 0, 6), 28),
                                       S("vm1.eqiad.wmnet"), VirtualInterface)})},
      prefixes |-> {Prefix(IpNetwork(IPv4(10, 0, 0, 4), 30), Site(S("eqiad")))}]}

\* netbox.collect(): the API answers with a snapshot, or a request fails.
Collect ==
    /\ pc = "collect"
    /\ \/ /\ netbox' \in MainNetboxes
          /\ events' = Append(events, LogRecord("INFO", "Gathered devices", ""))
          /\ pc' = "generate"
          /\ UNCHANGED frame
       \/ /\ Except("RequestError")
          /\ UNCHANGED netbox
    /\ UNCHANGED <<args, ret, zones, records_count, repo, tmpdir>>

\* Mutation of GenerateDone: the CAUTION is logged at min_records too.
GenerateDoneInclusive(done) ==
    /\ zones' = done.zones
    /\ records_count' = done.records_count
    /\ IF done.kind = "raise"
       THEN Except(done.exc)
       ELSE /\ events' = events
                  \o <<LogRecord("INFO", "Generated records", "")>>
                  \o IF done.records_count <= args.min_records
                     THEN <<LogRecord("ERROR", "CAUTION: less than the minimum limit",
                                      "records")>>
                     ELSE <<>>
            /\ pc' = "setup_repo"
            /\ UNCHANGED frame

\* records.generate() inside run_commit: the exception goes to main(), the
\* CAUTION below min_records is logged and the run goes on.
GenerateDone(done) ==
    /\ zones' = done.zones
    /\ records_count' = done.records_count
    /\ IF done.kind = "raise"
       THEN Except(done.exc)
       ELSE /\ events' = events
                  \o <<LogRecord("INFO", "Generated records", "")>>
                  \o IF done.records_count < args.min_records
                     THEN <<LogRecord("ERROR", "CAUTION: less than the minimum limit",
                                      "records")>>
                     ELSE <<>>
            /\ pc' = "setup_repo"
            /\ UNCHANGED frame

RunGenerate ==
    /\ pc = "generate"
    /\ \E order \in GenerateOrders(netbox.devices) :
           GenerateDone(GenerateLoop(order, netbox.prefixes,
                                     LoopState("return", "", zones, 0)))
    /\ UNCHANGED <<args, ret, netbox, repo, tmpdir>>

\* What the clone of the origin may be: without any commit, or with a head
\* whose tree equals the snippets about to be written or differs from them.
ClonedRepos ==
    {[head_valid |-> FALSE, head |-> "", differs |-> TRUE, pushed |-> {}],
     [head_valid |-> TRUE, head |-> "base", differs |-> TRUE, pushed |-> {}],
     [head_valid |-> TRUE, head |-> "base", differs |-> FALSE, pushed |-> {}]}

\* setup_repo(): git.Repo(repo_path), then clone into tmpdir.
SetupRepo ==
    /\ pc = "setup_repo"
    /\ \/ /\ repo' \in ClonedRepos
          /\ events' = events \o <<LogRecord("INFO", "Cloning", ""), GitOp("clone")>>
          /\ pc' = "get_file_stats"
          /\ UNCHANGED frame
       \/ /\ Except("GitCommandError")
          /\ UNCHANGED repo
    /\ UNCHANGED <<args, ret, netbox, zones, records_count, tmpdir>>

\* The files and lines get_file_stats() may count in the checkout.
FileStats == {[files |-> 0, lines |-> 0], [files |-> 100, lines |-> 1000]}

\* files, lines = get_file_stats(tmpdir)
GetFileStats ==
    /\ pc = "get_file_stats"
    /\ \/ /\ \E st \in FileStats :
                 /\ ~repo.head_valid => st.files = 0
                 /\ frame' = [frame EXCEPT !.files = st.files, !.lines = st.lines]
          /\ pc' = "write_snippets"
          /\ UNCHANGED events
       \/ Except("OSError")
    /\ UNCHANGED <<args, ret, netbox, zones, records_count, repo, tmpdir>>

\* working_repo.git.rm('.', r=True, ...), then records.write_snippets(tmpdir).
WriteSnippets ==
    /\ pc = "write_snippets"
    /\ \/ /\ events' = events \o <<GitOp("rm"),
                                   LogRecord("INFO", "Generating zonefile snippets", "")>>
          /\ tmpdir' = [tmpdir EXCEPT !.snippets = TRUE]
          /\ pc' = "commit_changes"
          /\ UNCHANGED frame
       \/ /\ Except("OSError")
          /\ UNCHANGED tmpdir
    /\ UNCHANGED <<args, ret, netbox, zones, records_count, repo>>

\* The totals of the stats of a commit that changes something.
CommitStats ==
    {[files |-> 1, lines |-> 2], [files |-> 10, lines |-> 40],
     [files |-> 20, lines |-> 200]}

\* commit_changes() finds nothing to commit: the head is valid and the index
\* does not differ from it.
NothingToCommit == repo.head_valid /\ ~repo.differs

\* Mutation of commit_changes: --keep-files is not looked at.
CommitWantedUnlessNothing(keep_files) == ~NothingToCommit

\* commit_changes() goes on to commit.
CommitWanted(keep_files) == ~NothingToCommit \/ keep_files

\* commit_changes(), and run_commit's return when there is no commit.
CommitChanges ==
    /\ pc = "commit_changes"
    /\ \/ /\ ~CommitWanted(args.keep_files)
          /\ events' = events \o <<GitOp("add"),
                                   LogRecord("INFO", "Nothing to commit!", "")>>
          /\ RunCommitReturn(IF args.batch THEN [no_changes |-> TRUE] ELSE None,
                             NO_CHANGES_RETURN_CODE)
          /\ UNCHANGED repo
       \/ /\ CommitWanted(args.keep_files)
          /\ \E st \in CommitStats \cup {[files |-> 0, lines |-> 0]} :
                 /\ NothingToCommit <=> st.files = 0
                 /\ frame' = [frame EXCEPT !.commit = Commit("new", st.files, st.lines)]
          /\ events' = events \o <<GitOp("add")>>
                 \o (IF NothingToCommit
                     THEN <<LogRecord("INFO", "Nothing to commit but --keep-files set",
                                      "")>>
                     ELSE <<>>)
                 \o <<GitOp("commit"), LogRecord("INFO", "Committed changes", "new")>>
          /\ repo' = [repo EXCEPT !.head_valid = TRUE, !.head = "new"]
          /\ pc' = "committed"
       \/ /\ ExceptAfter(<<GitOp("add")>>, "GitCommandError")
          /\ UNCHANGED repo
    /\ UNCHANGED <<args, ret, netbox, zones, records_count, tmpdir>>

\* batch_status of a prepared commit: the path, the SHA1 and the stats.
BatchStatus(commit) ==
    [path |-> "tmpdir", sha1 |-> commit.hexsha,
     files |-> commit.stats.files, lines |-> commit.stats.lines]

\* if not args.icinga_check: the diff is shown and validated.
ValidationWanted(icinga_check) == ~icinga_check

\* run_commit() after a commit was made: the commit is shown and validated
\* unless in Icinga check mode; batch mode returns here.
ValidateCommit ==
    /\ pc = "committed"
    /\ \/ /\ events' = events
                 \o (IF ValidationWanted(args.icinga_check)
                     THEN <<PrintOut("git show", frame.commit.hexsha)>>
                              \o validate(frame.files, frame.lines, frame.commit.stats)
                     ELSE <<>>)
          /\ IF args.batch
             THEN RunCommitReturn(BatchStatus(frame.commit), 0)
             ELSE pc' = "confirm" /\ UNCHANGED frame
       \/ /\ ValidationWanted(args.icinga_check)
          /\ Except("GitCommandError")
    /\ UNCHANGED <<args, ret, netbox, zones, records_count, repo, tmpdir>>

\* What the operator may type at the prompt.
Answers == {"y", "n", "yes", "Y", ""}

\* Mutation of PushConfirmed: any answer that starts a 'yes'.
PushConfirmedLenient(answer) == answer \in {"y", "yes", "Y"}

\* if answer == 'y'
PushConfirmed(answer) == answer = "y"

\* answer = input('OK to push the changes ...'), and the abort.
Confirm ==
    /\ pc = "confirm"
    /\ \E answer \in Answers :
           IF PushConfirmed(answer)
           THEN /\ events' = Append(events, Input("OK to push", answer))
                /\ pc' = "push"
                /\ UNCHANGED frame
           ELSE /\ events' = events \o <<Input("OK to push", answer),
                                         LogRecord("ERROR", "Manually aborted.", "")>>
                /\ RunCommitReturn(None, ABORT_RETURN_CODE)
    /\ UNCHANGED <<args, ret, netbox, zones, records_count, repo, tmpdir>>

\* Mutation of push: the head is not compared with the given SHA1.
push_unchecked(head, sha1, error) ==
    [attempted |-> TRUE,
     ret_code |-> IF error THEN PUSH_ERROR_RETURN_CODE ELSE 0]

\* push(): whether the remote push is attempted, and the return code, given
\* the head of the checkout and whether the push info carries the ERROR flag.
push(head, sha1, error) ==
    IF head /= sha1
    THEN [attempted |-> FALSE, ret_code |-> INVALID_SHA1_RETURN_CODE]
    ELSE [attempted |-> TRUE,
          ret_code |-> IF error THEN PUSH_ERROR_RETURN_CODE ELSE 0]

\* The SHA1 push() is called with: of the commit just made, or from the CLI.
PushSha1 == IF args.command = "commit" THEN frame.commit.hexsha ELSE args.sha1

\* The events and the repository after push() returned.
PushReturn(result, error) ==
    /\ events' = events
           \o (IF ~result.attempted
               THEN <<LogRecord("ERROR", "Head SHA1 does not match given SHA1", "")>>
               ELSE IF error
               THEN <<GitOp("push"), LogRecord("ERROR", "Error pushing", "")>>
               ELSE <<GitOp("push"), LogRecord("INFO", "Pushed with", "")>>)
    /\ repo' = IF result.attempted /\ ~error
               THEN [repo EXCEPT !.pushed = @ \cup {repo.head}]
               ELSE repo
    /\ frame' = [frame EXCEPT !.ret_code = result.ret_code]
    /\ pc' = "finally"

\* ret_code = push(...), from run_commit after the confirmation or for the
\* push command (where tmpdir = str(args.path) and git.Repo(tmpdir) come first).
Push ==
    /\ pc = "push"
    /\ tmpdir' = [tmpdir EXCEPT !.bound = TRUE]
    /\ \/ \E error \in BOOLEAN : PushReturn(push(repo.head, PushSha1, error), error)
       \/ /\ push(repo.head, PushSha1, FALSE).attempted
          /\ ExceptAfter(<<GitOp("push")>>, "GitCommandError")
          /\ UNCHANGED repo
       \/ /\ args.command = "push"
          /\ Except("InvalidGitRepositoryError")
          /\ UNCHANGED repo
    /\ UNCHANGED <<args, ret, netbox, zones, records_count>>

\* The operator is asked to inspect the generated files before the cleanup.
FailurePrompt ==
    /\ args.command = "commit"
    /\ ~args.batch
    /\ frame.ret_code \notin {0, NO_CHANGES_RETURN_CODE}

\* Mutation of RmtreeWanted: batch mode is not looked at.
RmtreeWantedInBatch(ret_code) ==
    \/ args.command = "commit" /\ ~args.keep_files
    \/ args.command = "commit" /\ args.icinga_check
    \/ args.command = "push" /\ ret_code = 0

\* Mutation of RmtreeWanted: --keep-files is not looked at in interactive mode.
RmtreeWantedDespiteKeepFiles(ret_code) ==
    \/ args.command = "commit" /\ ~args.batch
    \/ args.command = "commit" /\ ret_code = NO_CHANGES_RETURN_CODE /\ ~args.keep_files
    \/ args.command = "commit" /\ args.icinga_check
    \/ args.command = "push" /\ ret_code = 0

\* The condition under which 'finally' removes the temporary directory.
RmtreeWanted(ret_code) ==
    \/ args.command = "commit" /\ ~args.batch /\ ~args.keep_files
    \/ args.command = "commit" /\ ret_code = NO_CHANGES_RETURN_CODE /\ ~args.keep_files
    \/ args.command = "commit" /\ args.icinga_check
    \/ args.command = "push" /\ ret_code = 0

\* if batch_status is not None and not args.icinga_check
MetadataWanted(batch_status) == batch_status /= None /\ ~args.icinga_check

\* The 'finally' block of main(); reading the unbound name tmpdir raises
\* UnboundLocalError, which leaves main().
Finally ==
    /\ pc = "finally"
    /\ IF (FailurePrompt \/ RmtreeWanted(frame.ret_code)) /\ ~tmpdir.bound
       THEN /\ ret' = Raise("UnboundLocalError")
            /\ pc' = "done"
            /\ UNCHANGED <<events, tmpdir>>
       ELSE /\ events' = events
                   \o (IF FailurePrompt
                       THEN <<PrintOut("An error occurred", "tmpdir"),
                              Input("Press any key to cleanup", "")>>
                       ELSE <<>>)
                   \o (IF RmtreeWanted(frame.ret_code)
                       THEN <<Rmtree, LogRecord("INFO", "Temporary directory removed", "")>>
                       ELSE <<>>)
                   \o (IF MetadataWanted(frame.batch_status)
                       THEN <<PrintOut("METADATA", frame.batch_status)>>
                       ELSE <<>>)
            /\ tmpdir' = IF RmtreeWanted(frame.ret_code)
                         THEN [tmpdir EXCEPT !.on_disk = FALSE]
                         ELSE tmpdir
            /\ pc' = "after_finally"
            /\ UNCHANGED ret
    /\ UNCHANGED <<args, netbox, zones, records_count, repo, frame>>

\* save_icinga_state(): the exit code written to the state file, given whether
\* Netbox was changed within ALLOWED_CHANGES_MINUTES.
save_icinga_state(ret_code, recent_changes) ==
    IF ret_code = NO_CHANGES_RETURN_CODE THEN 0
    ELSE IF ret_code /= 0 THEN 2
    ELSE IF recent_changes THEN 1
    ELSE 2

\* Mutation of MainReturnCode: NO_CHANGES_RETURN_CODE is returned as it is.
MainReturnCodeUnmapped(ret_code) == ret_code

\* The value main() returns: in Icinga check mode no changes is 0.
MainReturnCode(ret_code) ==
    IF args.command = "commit" /\ args.icinga_check /\ ret_code = NO_CHANGES_RETURN_CODE
    THEN 0
    ELSE ret_code

\* main() after the try statement: the state file of the Icinga check is
\* written, for which changelog_since() asks the API when ret_code is 0, and
\* the return code is returned.
MainReturn ==
    /\ pc = "after_finally"
    /\ \/ /\ args.command = "commit" /\ args.icinga_check
          /\ \E recent_changes \in BOOLEAN :
                 events' = Append(events,
                                  [kind |-> "icinga_state",
                                   exit_code |-> save_icinga_state(frame.ret_code,
                                                                   recent_changes)])
          /\ ret' = Return(MainReturnCode(frame.ret_code))
       \/ /\ args.command = "commit" /\ args.icinga_check
          /\ frame.ret_code = 0
          /\ ret' = Raise("RequestError")
          /\ UNCHANGED events
       \/ /\ ~(args.command = "commit" /\ args.icinga_check)
          /\ ret' = Return(MainReturnCode(frame.ret_code))
          /\ UNCHANGED events
    /\ pc' = "done"
    /\ UNCHANGED <<args, netbox, zones, records_count, repo, tmpdir, frame>>

-----------------------------------------------------------------------------
(* SpecMain: main() run once for a command line                            *)

\* commit [-b] [--icinga-check] [--keep-files] <message>, with the min_records
\* of the configuration.
CommitArgs ==
    {[command |-> "commit", batch |-> b, icinga_check |-> i, keep_files |-> k,
      min_records |-> m] :
         b \in BOOLEAN, i \in BOOLEAN, k \in BOOLEAN, m \in 0..MaxMinRecords}

\* push <path> <sha1>: the checkout exists (parse_args checks the path).
PushArgs == {[command |-> "push", sha1 |-> s] : s \in {"new", "other"}}

InitMain ==
    /\ pc = "parse_args"
    /\ \/ /\ args \in CommitArgs
          /\ repo = None
          /\ tmpdir = [bound |-> FALSE, on_disk |-> FALSE, snippets |-> FALSE]
       \/ /\ args \in PushArgs
          /\ repo \in {[head_valid |-> TRUE, head |-> h, differs |-> FALSE,
                        pushed |-> {}] : h \in {"new", "base"}}
          /\ tmpdir = [bound |-> FALSE, on_disk |-> TRUE, snippets |-> TRUE]
    /\ ret = NoRet
    /\ netbox = EmptyNetbox
    /\ zones = EmptyZones
    /\ records_count = 0
    /\ events = <<>>
    /\ frame = None

NextMain ==
    \/ ParseArgs
    \/ EnterMain
    \/ Mkdtemp
    \/ Collect
    \/ RunGenerate
    \/ SetupRepo
    \/ GetFileStats
    \/ WriteSnippets
    \/ CommitChanges
    \/ ValidateCommit
    \/ Confirm
    \/ Push
    \/ Finally
    \/ MainReturn

SpecMain == InitMain /\ [][NextMain]_vars

-----------------------------------------------------------------------------
(* RecordBase.__lt__, to_tuple, __str__ and sorted()                       *)

\* The characters of names and addresses in the order of their code points.
CodePoints == S(" -./0123456789:ABCDEFGHIJKLMNOPQRSTUVWXYZ_abcdefghijklmnopqrstuvwxyz")

\* ord(c)
Ord(c) == CHOOSE i \in DOMAIN CodePoints : CodePoints[i] = c

\* s < t for two str: the first differing character decides, a proper prefix
\* is smaller.
RECURSIVE StrLt(_, _)
StrLt(s, t) ==
    IF t = <<>> THEN FALSE
    ELSE IF s = <<>> THEN TRUE
    ELSE IF Head(s) = Head(t) THEN StrLt(Tail(s), Tail(t))
    ELSE Ord(Head(s)) < Ord(Head(t))

\* The value of one hexadecimal digit.
HexValue(c) == (CHOOSE i \in DOMAIN HexDigits : HexDigits[i] = c) - 1

\* int(s, 16) for a non-empty string of digits
RECURSIVE IntBase16(_)
IntBase16(s) ==
    IF Len(s) = 1 THEN HexValue(s[1])
    ELSE IntBase16(SubSeq(s, 1, Len(s) - 1)) * 16 + HexValue(s[Len(s)])

\* The four nibbles of hextet g of an IPv6 address, as hexadecimal digits.
Hextet(ip, g) == [i \in 1..4 |-> HexDigits[ip.parts[4 * (g - 1) + i] + 1]]

\* '%x' of a hextet: no leading zeros, '0' for zero.
RECURSIVE HextetStr(_)
HextetStr(digits) ==
    IF Len(digits) > 1 /\ Head(digits) = "0" THEN HextetStr(Tail(digits)) ELSE digits

\* ip.exploded: the dotted octets of IPv4, the eight full hextets of IPv6.
Exploded(ip) ==
    IF ip.version = 4 THEN StrIPv4(ip)
    ELSE Join([g \in 1..8 |-> Hextet(ip, g)], S(":"))

\* The number of consecutive '0' hextets from position i on.
RECURSIVE ZeroRun(_, _)
ZeroRun(hextets, i) ==
    IF i > Len(hextets) \/ hextets[i] /= S("0") THEN 0
    ELSE 1 + ZeroRun(hextets, i + 1)

\* _compress_hextets: the first longest run of more than one '0' hextet is
\* replaced by an empty string, with one more at an end of the address.
CompressHextets(hextets) ==
    LET best == CHOOSE i \in DOMAIN hextets :
                    /\ \A j \in DOMAIN hextets : ZeroRun(hextets, j) <= ZeroRun(hextets, i)
                    /\ \A j \in 1..(i - 1) : ZeroRun(hextets, j) < ZeroRun(hextets, i)
        len  == ZeroRun(hextets, best)
    IN  IF len <= 1 THEN hextets
        ELSE (IF best = 1 THEN <<<<>>>> ELSE <<>>)
             \o SubSeq(hextets, 1, best - 1) \o <<<<>>>>
             \o SubSeq(hextets, best + len, Len(hextets))
             \o (IF best + len - 1 = Len(hextets) THEN <<<<>>>> ELSE <<>>)

\* ip.compressed
Compressed(ip) ==
    IF ip.version = 4 THEN StrIPv4(ip)
    ELSE Join(CompressHextets([g \in 1..8 |-> HextetStr(Hextet(ip, g))]), S(":"))

\* str.ljust(width)
Ljust(s, width) ==
    IF Len(s) >= width THEN s ELSE s \o [i \in 1..(width - Len(s)) |-> " "]

\* A ReverseRecord has a pointer, a ForwardRecord has none.
IsReverse(record) == "pointer" \in DOMAIN record

\* ForwardRecord.__str__
ForwardStr(record) ==
    Ljust(record.hostname, 40) \o S(" 1H IN ")
        \o (IF record.ip.version = 6 THEN S("AAAA") ELSE S("A"))
        \o S(" ") \o Compressed(record.ip)

\* ReverseRecord.__str__
ReverseStr(record) ==
    Ljust(record.pointer, 3) \o S(" 1H IN PTR ") \o record.hostname \o S(".")

\* str(record)
Str(record) == IF IsReverse(record) THEN ReverseStr(record) ELSE ForwardStr(record)

\* An element of a sort key: an int or a str.
IntKey(n) == [int |-> n]

StrKey(s) == [str |-> s]

\* Mutation of ForwardToTuple: the hostname as it is written.
ForwardToTupleUnreversed(record) ==
    <<StrKey(record.hostname), StrKey(Exploded(record.ip))>>

\* ForwardRecord.to_tuple
ForwardToTuple(record) ==
    <<StrKey(Join(Reverse(Split(record.hostname, ".")), S("."))),
      StrKey(Exploded(record.ip))>>

\* Mutation of ReverseToTuple: the labels of the pointer compared as str.
ReverseToTupleLexicographic(record) ==
    LET labels == Reverse(Split(record.pointer, "."))
    IN  [i \in DOMAIN labels |-> StrKey(labels[i])] \o <<StrKey(record.hostname)>>

\* ReverseRecord.to_tuple
ReverseToTuple(record) ==
    LET labels == Reverse(Split(record.pointer, "."))
    IN  [i \in DOMAIN labels |-> IntKey(IntBase16(labels[i]))]
            \o <<StrKey(record.hostname)>>

to_tuple(record) ==
    IF IsReverse(record) THEN ReverseToTuple(record) ELSE ForwardToTuple(record)

\* x < y for two elements of the same type.
KeyLt(x, y) ==
    IF "int" \in DOMAIN x THEN x.int < y.int ELSE StrLt(x.str, y.str)

\* a < b for two tuples: the first differing element decides, a proper prefix
\* is smaller.  The keys of the records of one zone have the same types at
\* the same places.
RECURSIVE TupleLt(_, _)
TupleLt(a, b) ==
    IF b = <<>> THEN FALSE
    ELSE IF a = <<>> THEN TRUE
    ELSE IF Head(a) = Head(b) THEN TupleLt(Tail(a), Tail(b))
    ELSE KeyLt(Head(a), Head(b))

\* RecordBase.__lt__
RecordLt(r1, r2) == TupleLt(to_tuple(r1), to_tuple(r2))

\* One step of sorted(): the record goes before the first one it is less than,
\* so after the records it compares equal to.
RECURSIVE InsertSorted(_, _)
InsertSorted(sorted, record) ==
    IF sorted = <<>> THEN <<record>>
    ELSE IF RecordLt(record, Head(sorted)) THEN <<record>> \o sorted
    ELSE <<Head(sorted)>> \o InsertSorted(Tail(sorted), record)

\* sorted(records) for the records in the order they are iterated: a stable
\* sort that compares with __lt__ only.
RECURSIVE Sorted(_)
Sorted(records) ==
    IF records = <<>> THEN <<>>
    ELSE InsertSorted(Sorted(SubSeq(records, 1, Len(records) - 1)),
                      records[Len(records)])

-----------------------------------------------------------------------------
(* Records.write_snippets                                                  *)

\* The zone set of a zone name: the records of its entries.
ZoneRecords(entries, zone) == {e.record : e \in {x \in entries : x.zone = zone}}

\* zonefile.write(str(record) + '\n') for each record in turn.
ZonefileLines(sorted) == [i \in DOMAIN sorted |-> Str(sorted[i]) \o <<"\n">>]

\* The contents of a zone file when the zone set is iterated in the order.
Zonefile(order) == ZonefileLines(Sorted(order))

\* open(os.path.join(destination, zone), 'w') and the writes: the file of
\* that name in the directory is created or replaced.
WriteFile(dir, name, lines) ==
    {f \in dir : f.name /= name} \cup {[name |-> name, lines |-> lines]}

\* One zone written into each of the directories, for every order in which
\* its zone set may be iterated.
WriteZone(dirs, entries, zone) ==
    {WriteFile(dir, zone, Zonefile(order)) :
         dir \in dirs, order \in Orderings(ZoneRecords(entries, zone))}

\* for zone, zone_records in zones.items()
RECURSIVE WriteZones(_, _, _)
WriteZones(dirs, entries, names) ==
    IF names = {} THEN dirs
    ELSE WriteZones(WriteZone(dirs, entries, CHOOSE zone \in names : TRUE), entries,
                    names \ {CHOOSE zone \in names : TRUE})

\* The zone names of the zone sets of one type.
ZoneNames(entries) == {e.zone : e \in entries}

\* Mutation of write_snippets: the reverse zones are not written.
write_snippets_direct_only(dir, z) ==
    WriteZones({dir}, z.direct, ZoneNames(z.direct))

\* write_snippets: the direct zones, then the reverse zones.  The directories
\* it may leave, one for every way the sets can be iterated.
write_snippets(dir, z) ==
    WriteZones(WriteZones({dir}, z.direct, ZoneNames(z.direct)),
               z.reverse, ZoneNames(z.reverse))

-----------------------------------------------------------------------------
(* Netbox.collect, Netbox._collect_device                                  *)

\* A nested record of the API: the id of the object it refers to.
Nested(id) == [id |-> id]

\* An interface of dcim.interfaces: it has a device, which has a site.
ApiInterface(id, mgmt_only, device_name, slug) ==
    [kind |-> "Interface", id |-> id, physical |-> TRUE, mgmt_only |-> mgmt_only,
     device |-> [name |-> device_name, site |-> Site(slug)]]

\* An interface of virtualization.interfaces: it has a virtual machine.
ApiVirtualInterface(id, vm_name) ==
    [kind |-> "Interface", id |-> id, physical |-> FALSE,
     virtual_machine |-> [name |-> vm_name]]

\* An address of ipam.ip_addresses: interface is None or a nested record.
ApiAddress(id, ip_interface, dns_name, interface) ==
    [id |-> id, address |-> ip_interface, dns_name |-> dns_name,
     interface |-> interface]

\* A device of dcim.devices: the primary addresses are None or nested records.
ApiDevice(name, asset_tag, role, status, primary_ip4, primary_ip6) ==
    [kind |-> "Device", name |-> name, asset_tag |-> asset_tag, device_role |-> role,
     status |-> status, primary_ip4 |-> primary_ip4, primary_ip6 |-> primary_ip6]

ApiVirtualMachine(name, primary_ip4, primary_ip6) ==
    [kind |-> "VirtualMachine", name |-> name,
     primary_ip4 |-> primary_ip4, primary_ip6 |-> primary_ip6]

\* {obj.id: obj for obj in objects}
ById(objects) ==
    [id \in {objects[i].id : i \in DOMAIN objects} |->
         objects[CHOOSE i \in DOMAIN objects : objects[i].id = id]]

\* d[key] = value
DictSet(d, key, value) ==
    [k \in DOMAIN d \cup {key} |-> IF k = key THEN value ELSE d[k]]

\* The Netbox instance while collect() runs: the dicts of __init__ and the
\* exception that ended collect(), if any.  The address sets of self.devices
\* hold the addresses by their id, since the objects are changed in place.
Collecting(kind, exc, addresses, physical_interfaces, virtual_interfaces, devices) ==
    [kind |-> kind, exc |-> exc, addresses |-> addresses,
     physical_interfaces |-> physical_interfaces,
     virtual_interfaces |-> virtual_interfaces, devices |-> devices]

\* self.devices[name] of the defaultdict: a missing entry is created with an
\* empty address set.
DevicesEntry(devices, name) ==
    IF name \in DOMAIN devices
    THEN devices[name]
    ELSE [device |-> None, physical |-> FALSE, addresses |-> {}]

\* self.devices[NO_DEVICE_NAME]['device'] = None
InitialDevices ==
    [name \in {NO_DEVICE_NAME} |-> [device |-> None, physical |-> FALSE, addresses |-> {}]]

Raised(st, exc) == [st EXCEPT !.kind = "raise", !.exc = exc]

\* self.devices[name]['addresses'].add(self.addresses[id])
AddAddress(st, name, id) ==
    [st EXCEPT !.devices =
         DictSet(st.devices, name,
                 [DevicesEntry(st.devices, name) EXCEPT !.addresses = @ \cup {id}])]

\* self.devices[name]['physical'] = physical
SetPhysical(st, name, physical) ==
    [st EXCEPT !.devices =
         DictSet(st.devices, name,
                 [DevicesEntry(st.devices, name) EXCEPT !.physical = physical])]

\* self.devices[name]['device'] = device
SetDevice(st, name, device) ==
    [st EXCEPT !.devices =
         DictSet(st.devices, name,
                 [DevicesEntry(st.devices, name) EXCEPT !.device = device])]

\* The body of 'for primary in (device.primary_ip4, device.primary_ip6)':
\* self.addresses[primary.id] raises KeyError for an address that is not
\* among the active ones.
CollectPrimary(st, name, primary) ==
    IF st.kind = "raise" \/ primary = None THEN st
    ELSE IF primary.id \notin DOMAIN st.addresses THEN Raised(st, "KeyError")
    ELSE IF st.addresses[primary.id].dns_name /= <<>>
    THEN AddAddress(st, name, primary.id)
    ELSE st

_collect_device(st, device, physical) ==
    CollectPrimary(
        CollectPrimary(SetPhysical(SetDevice(st, device.name, device),
                                   device.name, physical),
                       device.name, device.primary_ip4),
        device.name, device.primary_ip6)

\* for device in ...: self._collect_device(device, physical)
RECURSIVE CollectDevices(_, _, _)
CollectDevices(st, devices, physical) ==
    IF devices = <<>> \/ st.kind = "raise" THEN st
    ELSE CollectDevices(_collect_device(st, Head(devices), physical),
                        Tail(devices), physical)

\* address.interface = interface, on the object held in self.addresses
SetInterface(st, id, interface) ==
    [st EXCEPT !.addresses[id].interface = interface]

\* The address of a resolved interface: skipped when the device or VM of the
\* interface was not collected or when it has no DNS name, added otherwise.
Attribute(st, id, name, physical) ==
    IF name \notin DOMAIN st.devices \/ st.addresses[id].dns_name = <<>>
    THEN st
    ELSE SetPhysical(AddAddress(st, name, id), name, physical)

\* The try statement: the interface is looked up in the physical interfaces
\* and, on KeyError, in the virtual ones, where a KeyError is not caught.
Resolve(st, id, interface_id) ==
    IF interface_id \in DOMAIN st.physical_interfaces
    THEN Attribute(SetInterface(st, id, st.physical_interfaces[interface_id]), id,
                   st.physical_interfaces[interface_id].device.name, TRUE)
    ELSE IF interface_id \in DOMAIN st.virtual_interfaces
    THEN Attribute(SetInterface(st, id, st.virtual_interfaces[interface_id]), id,
                   st.virtual_interfaces[interface_id].virtual_machine.name, FALSE)
    ELSE Raised(st, "KeyError")

\* Mutation of Orphaned: an address without interface is added whatever its name.
OrphanedUnnamed(st, id) ==
    SetPhysical(AddAddress(st, NO_DEVICE_NAME, id), NO_DEVICE_NAME, FALSE)

\* An address without interface: under NO_DEVICE_NAME when it has a DNS name.
Orphaned(st, id) ==
    IF st.addresses[id].dns_name = <<>>
    THEN st
    ELSE SetPhysical(AddAddress(st, NO_DEVICE_NAME, id), NO_DEVICE_NAME, FALSE)

\* The body of 'for address in self.addresses.values()'.
ScanAddress(st, id) ==
    IF st.addresses[id].interface = None
    THEN Orphaned(st, id)
    ELSE Resolve(st, id, st.addresses[id].interface.id)

RECURSIVE ScanAddresses(_, _)
ScanAddresses(st, ids) ==
    IF ids = <<>> \/ st.kind = "raise" THEN st
    ELSE ScanAddresses(ScanAddress(st, Head(ids)), Tail(ids))

\* The keys of {obj.id: obj for obj in objects} in the order of the dict: the
\* order the API listed the objects in (the ids of one endpoint differ).
Ids(objects) == [i \in DOMAIN objects |-> objects[i].id]

\* collect(): the dicts are filled from the answers of the API, the devices
\* and then the virtual machines are collected, then the addresses scanned.
collect(api) ==
    ScanAddresses(
        CollectDevices(
            CollectDevices(
                Collecting("return", "", ById(api.ip_addresses), ById(api.interfaces),
                           ById(api.virtual_interfaces), InitialDevices),
                api.devices, TRUE),
            api.virtual_machines, FALSE),
        Ids(api.ip_addresses))

\* netbox.devices and netbox.prefixes as generate() reads them.
Collected(st, prefixes) ==
    [devices |-> {DeviceData(name, st.devices[name].device, st.devices[name].physical,
                             {st.addresses[id] : id \in st.devices[name].addresses}) :
                      name \in DOMAIN st.devices},
     prefixes |-> prefixes]

-----------------------------------------------------------------------------
(* SpecCollect: collect(), generate() and write_snippets() on a snapshot   *)

\* The most active addresses the API lists.
MaxApiAddresses == 2

\* The interfaces of the snapshot: two of the server db1001 (one for
\* management only), one of the server db2001 at another site, one of the
\* device old1, whose status is not among NETBOX_DEVICE_STATUSES, and one of
\* the virtual machine vm1.
ApiInterfaces ==
    <<ApiInterface(1, FALSE, S("db1001"), S("eqiad")),
      ApiInterface(2, TRUE, S("db1001"), S("eqiad")),
      ApiInterface(4, FALSE, S("old1"), S("eqiad")),
      ApiInterface(5, FALSE, S("db2001"), S("b-eqiad"))>>

ApiVirtualInterfaces == <<ApiVirtualInterface(3, S("vm1"))>>

\* The interface 9 is in neither list: it was deleted after the addresses
\* were listed.
ApiAddressPool ==
    {ApiAddress(11, IpInterface(IPv4(10, 0, 0, 5), 24), S("db1001.eqiad.wmnet"), Nested(1)),
     ApiAddress(12, IpInterface(IPv4(10, 0, 1, 9), 24), S("db1001.mgmt.eqiad.wmnet"),
                Nested(2)),
     ApiAddress(13, IpInterface(IPv4(10, 0, 0, 6), 24), <<>>, Nested(1)),
     ApiAddress(14, IpInterface(IPv4(192, 0, 2, 7), 24), S("foo.wikimedia.org"), None),
     ApiAddress(15, IpInterface(IPv4(192, 0, 2, 8), 24), <<>>, None),
     ApiAddress(16, IpInterface(IPv4(10, 0, 0, 7), 24), S("vm1.eqiad.wmnet"), Nested(3)),
     ApiAddress(17, IpInterface(IPv4(10, 0, 0, 8), 24), S("old1.eqiad.wmnet"), Nested(4)),
     ApiAddress(18, IpInterface(IPv4(10, 0, 0, 9), 24), S("gone.eqiad.wmnet"), Nested(9)),
     ApiAddress(19, IpInterface(IPv4(10, 0, 0, 10), 24), S("db1001.wikimedia.org"), None),
     ApiAddress(20, IpInterface(IPv4(203, 0, 113, 5), 32), S("h.example.org"), Nested(5)),
     ApiAddress(21, IpInterface(IPv4(203, 0, 113, 5), 32), S("h.example.org-b"),
                Nested(1)),
     ApiAddress(22, IpInterface(IPv4(10, 0, 0, 11), 24), S("db1001.wikimedia.org"),
                Nested(1)),
     ApiAddress(23, IpInterface(IPv4(10, 0, 0, 5), 32), S("db1001.eqiad.wmnet"), Nested(1)),
     ApiAddress(24, IpInterface(IPv4(10, 0, 1, 10), 24), S("wmf1234.mgmt.eqiad.wmnet"),
                Nested(2))}

\* The objects of a set as the list the API answers with: ordered by id.
RECURSIVE ApiList(_)
ApiList(objects) ==
    IF objects = {} THEN <<>>
    ELSE LET first == CHOOSE o \in objects : \A p \in objects : o.id <= p.id
         IN  <<first>> \o ApiList(objects \ {first})

\* The primary IPv4 address db1001 declares: none, or one of its addresses,
\* the address translated to one of them, or an address without DNS name.  An
\* address that is not listed among the active ones has another status.
ApiPrimaries == {None, Nested(11), Nested(12), Nested(13), Nested(19), Nested(22)}

ApiServers ==
    {<<>>} \cup
    {<<ApiDevice(S("db1001"), S("WMF1234"), "server", st, p, None)>> :
         st \in GenerateStatuses, p \in ApiPrimaries}

ApiSecondServers ==
    {<<>>, <<ApiDevice(S("db2001"), S("db2001"), "server", "active", None, None)>>}

ApiVirtualMachines ==
    {<<>>, <<ApiVirtualMachine(S("vm1"), None, None)>>,
     <<ApiVirtualMachine(S("vm1"), Nested(16), None)>>}

ApiPrefixes ==
    {{},
     {Prefix(IpNetwork(IPv4(10, 0, 0, 0), 24), Site(S("eqiad"))),
      Prefix(IpNetwork(IPv4(10, 0, 1, 0), 24), None)}}

\* The answers of the API to the requests of collect().
ApiSnapshots ==
    {[ip_addresses |-> ApiList(a), interfaces |-> ApiInterfaces,
      virtual_interfaces |-> ApiVirtualInterfaces, devices |-> s \o t,
      virtual_machines |-> v, prefixes |-> p] :
         a \in {x \in SUBSET ApiAddressPool : Cardinality(x) <= MaxApiAddresses},
         s \in ApiServers, t \in ApiSecondServers, v \in ApiVirtualMachines,
         p \in ApiPrefixes}

InitCollect ==
    /\ pc = "collect"
    /\ args \in {[api |-> api, min_records |-> 0] : api \in ApiSnapshots}
    /\ ret = NoRet
    /\ netbox = EmptyNetbox
    /\ zones = EmptyZones
    /\ records_count = 0
    /\ events = <<>>
    /\ repo = None
    /\ tmpdir = {}
    /\ frame = None

\* netbox.collect() returned or raised: what it gathered so far is in netbox.
CollectDone(st) ==
    /\ netbox' = Collected(st, args.api.prefixes)
    /\ IF st.kind = "raise"
       THEN ret' = Raise(st.exc) /\ pc' = "raised"
       ELSE ret' = ret /\ pc' = "call"

CollectNetbox ==
    /\ pc = "collect"
    /\ CollectDone(collect(args.api))
    /\ UNCHANGED <<args, zones, records_count>>
    /\ UNCHANGED workflow

\* records.write_snippets(tmpdir), reached when generate() returned: the
\* files are written into the empty directory mkdtemp() made.
WriteZonefiles ==
    /\ pc = "return"
    /\ ret.kind = "return"
    /\ tmpdir' \in write_snippets(tmpdir, zones)
    /\ pc' = "written"
    /\ UNCHANGED <<args, ret, netbox, zones, records_count, events, repo, frame>>

NextCollect ==
    \/ CollectNetbox
    \/ Generate
    \/ WriteZonefiles

SpecCollect == InitCollect /\ [][NextCollect]_vars

-----------------------------------------------------------------------------
(* SpecSort: sorted() applied to the records of one zone set               *)

\* The most records of the zone set.
MaxSorted == 3

SortHostnames == {S("a.b.example.org"), S("z.b.example.org"), S("a.b"), S("b.a")}

SortInterfaces ==
    {IpInterface(IPv4(10, 0, 0, 9), 24), IpInterface(IPv4(10, 0, 0, 10), 24),
     IpInterface(V6Host, 64)}

\* Forward records of the zone eqiad.wmnet.
SortForwardPool ==
    {ForwardRecord(S("eqiad.wmnet"), h, i) : h \in SortHostnames, i \in SortInterfaces}

SortOctets == {2, 10, 99, 100}

\* Reverse records of the zone 0.0.10.in-addr.arpa, as get_reverse makes them.
SortReversePool ==
    {get_reverse(ForwardRecord(S("eqiad.wmnet"), h, IpInterface(IPv4(10, 0, 0, n), 24)),
                 {Prefix(IpNetwork(IPv4(10, 0, 0, 0), 24), None)}) :
         h \in {S("db1"), S("db2")}, n \in SortOctets}

\* Reverse records of the zone of 2620:0:861:1::/64.
SortReverseV6Pool ==
    {get_reverse(ForwardRecord(S("eqiad.wmnet"), S("db1"),
                               IpInterface(IPv6(V6Net \o Zeros(14) \o <<hi, lo>>), 64)),
                 {Prefix(IpNetwork(V6Host, 64), None)}) :
         hi \in {0, 1}, lo \in {2, 10}}

\* The orders in which up to MaxSorted records of a pool can be iterated.
SortOrders(pool) ==
    UNION {Orderings(set) : set \in {x \in SUBSET pool : Cardinality(x) <= MaxSorted}}

InitSort ==
    /\ pc = "call"
    /\ args \in {[records |-> order] :
                    order \in SortOrders(SortForwardPool) \cup SortOrders(SortReversePool)
                                  \cup SortOrders(SortReverseV6Pool)}
    /\ ret = NoRet
    /\ netbox = EmptyNetbox
    /\ zones = EmptyZones
    /\ records_count = 0
    /\ NoWorkflow

\* sorted(zone_records)
SortRecords ==
    /\ pc = "call"
    /\ ret' = Return(Sorted(args.records))
    /\ pc' = "return"
    /\ UNCHANGED <<args, netbox, zones, records_count>>
    /\ UNCHANGED workflow

NextSort == SortRecords

SpecSort == InitSort /\ [][NextSort]_vars

-----------------------------------------------------------------------------
(* check_icinga_should_run, and main() in Icinga check mode                *)

ICINGA_RUN_EVERY_MINUTES == 60

ICINGA_RETRY_ON_FAILURE_MINUTES == 15

\* The state file as open() and json.load() find it: missing, not readable as
\* JSON (an interrupted write, a directory, no permission), or the state that
\* save_icinga_state() wrote, with the time in seconds.
MissingStateFile == [kind |-> "missing"]

UnreadableStateFile == [kind |-> "unreadable"]

IcingaState(exit_code, timestamp) ==
    [kind |-> "state", exit_code |-> exit_code, timestamp |-> timestamp]

\* What check_icinga_should_run returns and what it logs.
ShouldRun(value, log) == [value |-> value, log |-> log]

\* Mutation of FreshState: a state of exactly the interval is not fresh.
FreshStateExclusive(exit_code, delta) ==
    IF exit_code = 0
    THEN ~(delta >= ICINGA_RUN_EVERY_MINUTES * 60)
    ELSE ~(delta >= ICINGA_RETRY_ON_FAILURE_MINUTES * 60)

\* The state is fresh enough: the two comparisons of delta.
FreshState(exit_code, delta) ==
    IF exit_code = 0
    THEN ~(delta > ICINGA_RUN_EVERY_MINUTES * 60)
    ELSE ~(delta > ICINGA_RETRY_ON_FAILURE_MINUTES * 60)

\* check_icinga_should_run(state_file) at the time now = time.time().
check_icinga_should_run(state_file, now) ==
    IF state_file.kind /= "state"
    THEN ShouldRun(TRUE, <<LogRecord("ERROR", "Failed to read Icinga state", "")>>)
    ELSE IF FreshState(state_file.exit_code, now - state_file.timestamp)
    THEN ShouldRun(FALSE, <<LogRecord("INFO", "Last run was", ""),
                            LogRecord("INFO", "Skipping", "")>>)
    ELSE ShouldRun(TRUE, <<LogRecord("INFO", "Last run was", "")>>)

\* 'if ... and not check_icinga_should_run(icinga_state_file): return 0', then
\* the locals of main() before the try statement.
IcingaChecked(check) ==
    /\ events' = events \o check.log
    /\ IF check.value
       THEN frame' = MainFrame /\ pc' = "mkdtemp" /\ UNCHANGED ret
       ELSE ret' = Return(0) /\ pc' = "done" /\ UNCHANGED frame

\* main() up to the try block, with the state file and the clock of the run.
CheckedEnterMain ==
    /\ pc = "main"
    /\ IF args.command = "commit" /\ args.icinga_check
       THEN IcingaChecked(check_icinga_should_run(args.state_file, args.time))
       ELSE /\ frame' = MainFrame
            /\ pc' = IF args.command = "commit" THEN "mkdtemp" ELSE "push"
            /\ UNCHANGED <<ret, events>>
    /\ UNCHANGED <<args, netbox, zones, records_count, repo, tmpdir>>

-----------------------------------------------------------------------------
(* SpecIcinga: main() run once, with the state file of the Icinga check    *)

\* The times of the last run, in seconds.
IcingaTimestamps == {1000000}

\* The seconds since the last run: the clock may have been set back.
IcingaDeltas == {-1, 0, 899, 900, 901, 3599, 3600, 3601}

\* The exit codes save_icinga_state() writes.
IcingaExitCodes == {0, 1, 2}

\* The state file and the clock of a run in Icinga check mode.
IcingaRuns ==
    {[state_file |-> f, time |-> t] :
         f \in {MissingStateFile, UnreadableStateFile}, t \in IcingaTimestamps}
    \cup
    {[state_file |-> IcingaState(c, t), time |-> t + d] :
         c \in IcingaExitCodes, t \in IcingaTimestamps, d \in IcingaDeltas}

\* The command lines of commit with what the run finds; without
\* --icinga-check the state file is not looked at.
IcingaCommitArgs ==
    {[command |-> "commit", batch |-> p[1].batch,
      icinga_check |-> p[1].icinga_check, keep_files |-> p[1].keep_files,
      min_records |-> p[1].min_records,
      state_file |-> p[2].state_file, time |-> p[2].time] :
         p \in {q \in CommitArgs \X IcingaRuns :
                    q[1].icinga_check \/ q[2].state_file = MissingStateFile}}

InitIcinga ==
    /\ pc = "parse_args"
    /\ \/ /\ args \in IcingaCommitArgs
          /\ repo = None
          /\ tmpdir = [bound |-> FALSE, on_disk |-> FALSE, snippets |-> FALSE]
       \/ /\ args \in PushArgs
          /\ repo \in {[head_valid |-> TRUE, head |-> h, differs |-> FALSE,
                        pushed |-> {}] : h \in {"new", "base"}}
          /\ tmpdir = [bound |-> FALSE, on_disk |-> TRUE, snippets |-> TRUE]
    /\ ret = NoRet
    /\ netbox = EmptyNetbox
    /\ zones = EmptyZones
    /\ records_count = 0
    /\ events = <<>>
    /\ frame = None

NextIcinga ==
    \/ ParseArgs
    \/ CheckedEnterMain
    \/ Mkdtemp
    \/ Collect
    \/ RunGenerate
    \/ SetupRepo
    \/ GetFileStats
    \/ WriteSnippets
    \/ CommitChanges
    \/ ValidateCommit
    \/ Confirm
    \/ Push
    \/ Finally
    \/ MainReturn

SpecIcinga == InitIcinga /\ [][NextIcinga]_vars

-----------------------------------------------------------------------------
(* SpecPointer: generate() over one address whose DNS name is any name     *)

PointerLabels == {S("wmf1234"), S("mgmt"), S("wmnet"), S("org")}

RECURSIVE PointerLabelSeqs(_)
PointerLabelSeqs(n) ==
    IF n = 0 THEN {<<>>}
    ELSE {<<l>> \o rest : l \in PointerLabels, rest \in PointerLabelSeqs(n - 1)}

\* The DNS names of one to MaxLabels labels, bare and padded.
PointerNames ==
    {pad[1] \o Join(labels, S(".")) \o pad[2] :
         labels \in UNION {PointerLabelSeqs(n) : n \in 1..MaxLabels},
         pad \in SplitPads}

\* What the address hangs on: the device data without the address, the
\* interface of the address and its IP.
PointerContext(name, device, physical, interface, ip_interface) ==
    [name |-> name, device |-> device, physical |-> physical,
     interface |-> interface, ip_interface |-> ip_interface]

PointerContexts ==
    {PointerContext(NO_DEVICE_NAME, None, FALSE, None,
                    IpInterface(IPv4(10, 0, 0, 5), 24)),
     PointerContext(S("db1001"), Device(S("db1001"), S("WMF1234"), "server", "active"),
                    TRUE, PhysicalInterface(TRUE, S("eqiad")),
                    IpInterface(IPv4(10, 0, 1, 9), 24)),
     PointerContext(S("db1001"),
                    Device(S("db1001"), S("WMF1234"), "server", "decommissioning"),
                    TRUE, PhysicalInterface(TRUE, S("eqiad")),
                    IpInterface(IPv4(10, 0, 1, 9), 24)),
     PointerContext(S("db1001"), Device(S("db1001"), S("WMF1234"), "server", "active"),
                    TRUE, PhysicalInterface(FALSE, S("eqiad")),
                    IpInterface(IPv4(10, 0, 0, 5), 24)),
     PointerContext(S("db1001"), Device(S("db1001"), S("WMF1234"), "server", "active"),
                    TRUE, PhysicalInterface(FALSE, S("eqiad")),
                    IpInterface(V6Host, 64)),
     PointerContext(S("vm1"), VirtualMachine(S("vm1")), FALSE, VirtualInterface,
                    IpInterface(IPv4(10, 0, 0, 6), 28))}

PointerPrefixes ==
    {{},
     {Prefix(IpNetwork(IPv4(10, 0, 0, 0), 24), Site(S("eqiad"))),
      Prefix(IpNetwork(IPv4(10, 0, 1, 0), 24), None),
      Prefix(IpNetwork(V6Host, 64), Site(S("eqiad")))}}

\* netbox.devices with the one address: the sentinel is always there.
PointerDevices(c, dns_name) ==
    (IF c.name = NO_DEVICE_NAME THEN {}
     ELSE {DeviceData(NO_DEVICE_NAME, None, FALSE, {})})
    \cup {DeviceData(c.name, c.device, c.physical,
                     {Address(c.ip_interface, dns_name, c.interface)})}

InitPointer ==
    /\ pc = "call"
    /\ args = [min_records |-> 0]
    /\ netbox \in {[devices |-> PointerDevices(c, n), prefixes |-> p] :
                      c \in PointerContexts, n \in PointerNames, p \in PointerPrefixes}
    /\ ret = NoRet
    /\ zones = EmptyZones
    /\ records_count = 0
    /\ NoWorkflow

NextPointer == Generate

SpecPointer == InitPointer /\ [][NextPointer]_vars

-----------------------------------------------------------------------------
(* customscripts/provision_server.py: ProvisionServerNetwork               *)

MGMT_IFACE_NAME == S("mgmt")

PRIMARY_IFACE_NAME == S("##PRIMARY##")

VLAN_POP_TYPES == {S("public"), S("private")}

FRACK_TENANT_SLUG == S("fr-tech")

ascii_lowercase == S("abcdefghijklmnopqrstuvwxyz")

\* The objects of the NetBox database the script reads and writes.  In the
\* specification of this script the variable netbox is the database.
DcimRack(name, location) == [name |-> name, location |-> location]

DcimTenant(slug) == [kind |-> "Tenant", slug |-> slug]

DcimDevice(name, status, rack, role, tenant, site) ==
    [name |-> name, status |-> status, rack |-> rack, role |-> role,
     tenant |-> tenant, site |-> site, primary_ip4 |-> None, primary_ip6 |-> None]

\* An interface: vlan names the untagged VLAN of a switch port and is None
\* otherwise.
DcimInterface(device, name, mgmt_only, vlan) ==
    [device |-> device, name |-> name, mgmt_only |-> mgmt_only, vlan |-> vlan]

\* An address: the prefix it was taken from and its host number in it.
HostAddress(prefix, host) == [prefix |-> prefix, host |-> host]

IpamIPAddress(address, dns_name, family, iface) ==
    [address |-> address, dns_name |-> dns_name, family |-> family,
     device |-> iface.device, interface |-> iface.name]

\* A VLAN: how many active IPv4 and IPv6 prefixes it has, the size of the
\* IPv4 prefix and whether it is private, and the racks of the devices that
\* had interfaces in it before the switch ports of the database.
IpamVLAN(name, site, tenant, prefixes_v4, prefixes_v6, size, private, racks) ==
    [name |-> name, site |-> site, tenant |-> tenant, prefixes_v4 |-> prefixes_v4,
     prefixes_v6 |-> prefixes_v6, size |-> size, private |-> private,
     racks |-> racks]

\* The management prefix of the site.
MgmtPrefix(size) == [size |-> size]

DcimCable(a, b, label) == [a |-> a, b |-> b, label |-> label]

\* device.interfaces.all()
DeviceInterfaces(db, name) == {i \in db.interfaces : i.device = name}

\* iface.ip_addresses.all()
InterfaceAddresses(db, iface) ==
    {a \in db.ip_addresses : a.device = iface.device /\ a.interface = iface.name}

\* What a call leaves: the database, the message that ended it and whether an
\* exception ended it.
Provisioned(db, outcome) == [db |-> db, outcome |-> outcome, raised |-> FALSE]

ProvisioningRaised(db, exc) == [db |-> db, outcome |-> exc, raised |-> TRUE]

\* _add_iface: Interface(...).save()
_add_iface(db, name, device, mgmt) ==
    [db EXCEPT !.interfaces = @ \cup {DcimInterface(device.name, name, mgmt, None)}]

\* _add_ip: IPAddress(...).save()
_add_ip(db, address, dns_name, family, iface) ==
    [db EXCEPT !.ip_addresses = @ \cup {IpamIPAddress(address, dns_name, family, iface)}]

\* prefix.get_first_available_ip(): the lowest host of the prefix that no
\* address of the database has, None when the prefix is full.
UsedHosts(db, prefix) ==
    {a.address.host : a \in {x \in db.ip_addresses : x.address.prefix = prefix}}

FirstHost(prefix, free) ==
    IF free = {} THEN None
    ELSE HostAddress(prefix, CHOOSE h \in free : \A g \in free : h <= g)

get_first_available_ip(db, prefix, size) ==
    FirstHost(prefix, (1..size) \ UsedHosts(db, prefix))

\* The IPv4 prefix and the IPv6 prefix of a VLAN.
PrefixV4(vlan) == <<vlan.name, 4>>

PrefixV6(vlan) == <<vlan.name, 6>>

\* dns_suffix of _assign_primary
DnsSuffix(device, vlan) ==
    IF vlan.private
    THEN IF device.tenant /= None /\ device.tenant.slug = FRACK_TENANT_SLUG
         THEN S("frack.") \o device.site \o S(".wmnet")
         ELSE device.site \o S(".wmnet")
    ELSE S("wikimedia.org")

\* device.primary_ip4 = ip_v4; device.save()
SetPrimaryIp4(db, device, address) ==
    [db EXCEPT !.devices[device.name].primary_ip4 = address]

SetPrimaryIp6(db, device, address) ==
    [db EXCEPT !.devices[device.name].primary_ip6 = address]

\* The IPv6 address that embeds the IPv4 address host, its DNS name dropped
\* on request.
AssignIpv6(db, device, vlan, iface, host, dns_name, skip_ipv6_dns) ==
    Provisioned(
        SetPrimaryIp6(_add_ip(db, HostAddress(PrefixV6(vlan), host.host),
                              IF skip_ipv6_dns THEN S("") ELSE dns_name, 6, iface),
                      device, HostAddress(PrefixV6(vlan), host.host)),
        "")

\* After the additional addresses: the IPv6 address when the VLAN has a prefix.
AfterExtraIps(extra, device, vlan, iface, host, dns_name, skip_ipv6_dns) ==
    IF extra.raised THEN extra
    ELSE IF vlan.prefixes_v6 = 0 THEN extra
    ELSE AssignIpv6(extra.db, device, vlan, iface, host, dns_name, skip_ipv6_dns)

\* One additional address: IPAddress(address=None) cannot be saved.
ExtraIp(db, device, vlan, iface, letter, address) ==
    IF address = None
    THEN ProvisioningRaised(db, "IntegrityError")
    ELSE Provisioned(_add_ip(db, address,
                             device.name \o S("-") \o <<letter>> \o S(".")
                                 \o DnsSuffix(device, vlan),
                             4, iface), "")

\* for letter in ascii_lowercase[:cassandra_instances]
RECURSIVE ExtraIps(_, _, _, _, _)
ExtraIps(run, device, vlan, iface, letters) ==
    IF run.raised \/ letters = <<>> THEN run
    ELSE ExtraIps(ExtraIp(run.db, device, vlan, iface, Head(letters),
                          get_first_available_ip(run.db, PrefixV4(vlan), vlan.size)),
                  device, vlan, iface, Tail(letters))

\* The IPv4 address is there: it becomes the primary, then the others follow.
AssignIpv4(db, device, vlan, iface, host, skip_ipv6_dns, cassandra_instances) ==
    AfterExtraIps(
        ExtraIps(Provisioned(
                     SetPrimaryIp4(_add_ip(db, host,
                                           device.name \o S(".") \o DnsSuffix(device, vlan),
                                           4, iface),
                                   device, host),
                     ""),
                 device, vlan, iface,
                 SubSeq(ascii_lowercase, 1, Min(cassandra_instances, 26))),
        device, vlan, iface, host,
        device.name \o S(".") \o DnsSuffix(device, vlan), skip_ipv6_dns)

\* _assign_primary once the interface exists in db.
AssignPrimaryIps(db, device, vlan, iface, host, skip_ipv6_dns, cassandra_instances) ==
    IF vlan.prefixes_v4 /= 1 \/ vlan.prefixes_v6 > 1
    THEN Provisioned(db, "")
    ELSE IF host = None
    THEN Provisioned(db, "")
    ELSE AssignIpv4(db, device, vlan, iface, host, skip_ipv6_dns, cassandra_instances)

\* _assign_primary: the interface first, then the addresses.
_assign_primary(db, device, vlan, skip_ipv6_dns, cassandra_instances) ==
    AssignPrimaryIps(_add_iface(db, PRIMARY_IFACE_NAME, device, FALSE), device, vlan,
                     DcimInterface(device.name, PRIMARY_IFACE_NAME, FALSE, None),
                     get_first_available_ip(db, PrefixV4(vlan), vlan.size),
                     skip_ipv6_dns, cassandra_instances)

\* The management address, when the prefix has one left.
AssignMgmtIp(db, device, iface, host) ==
    IF host = None
    THEN Provisioned(db, "unable to find an available IP")
    ELSE Provisioned(
             _add_ip(db, host,
                     IF device.tenant /= None /\ device.tenant.slug = FRACK_TENANT_SLUG
                     THEN device.name \o S(".mgmt.frack.") \o device.site \o S(".wmnet")
                     ELSE device.name \o S(".mgmt.") \o device.site \o S(".wmnet"),
                     4, iface),
             "")

\* _assign_mgmt: the interface, then an address of the management prefix of
\* the site and tenant, db.mgmt_prefix, which is None when there is none.
_assign_mgmt(db, device) ==
    IF db.mgmt_prefix = None
    THEN Provisioned(_add_iface(db, MGMT_IFACE_NAME, device, TRUE),
                     "can't find management prefix")
    ELSE AssignMgmtIp(_add_iface(db, MGMT_IFACE_NAME, device, TRUE), device,
                      DcimInterface(device.name, MGMT_IFACE_NAME, TRUE, None),
                      get_first_available_ip(db, <<device.site, 0>>, db.mgmt_prefix.size))

\* rack.location.slug.split('-')[-1]
LocationRow(location) == Split(location, "-")[Len(Split(location, "-"))]

\* new_vlan_name of _get_vlan
NewVlanName(vlan_type, device) ==
    vlan_type \o S("1-") \o Lower(device.rack.name) \o S("-") \o device.site

\* old_vlan_name of _get_vlan, in a site where the type is available.
OldVlanName(vlan_type, device) ==
    IF device.site \in {S("eqiad"), S("codfw")}
    THEN IF vlan_type = S("cloud-hosts")
         THEN S("cloud-hosts1-") \o device.site
         ELSE vlan_type \o S("1-") \o LocationRow(device.rack.location) \o S("-")
                  \o device.site
    ELSE vlan_type \o S("1-") \o device.site

\* VLAN.objects.get(name=name, status="active"), None when it does not exist.
GetVlan(db, name) ==
    IF \E v \in db.vlans : v.name = name
    THEN CHOOSE v \in db.vlans : v.name = name
    ELSE None

\* _get_vlan: the VLAN of the new name, else of the old name, else None.
_get_vlan(db, vlan_type, device) ==
    IF device.site \notin {S("eqiad"), S("codfw")} /\ vlan_type \notin VLAN_POP_TYPES
    THEN None
    ELSE IF GetVlan(db, NewVlanName(vlan_type, device)) /= None
    THEN GetVlan(db, NewVlanName(vlan_type, device))
    ELSE GetVlan(db, OldVlanName(vlan_type, device))

\* {dev.rack for dev in devices} for the devices of vlan.get_interfaces()
VlanRacks(db, vlan) ==
    vlan.racks \cup
    {db.devices[i.device].rack :
         i \in {x \in db.interfaces : x.vlan /= None /\ x.vlan.name = vlan.name}}

\* _is_vlan_valid
_is_vlan_valid(db, vlan, device) ==
    /\ vlan.site = device.site
    /\ vlan.tenant = device.tenant
    /\ \/ VlanRacks(db, vlan) = {}
       \/ device.rack.location \in {r.location : r \in VlanRacks(db, vlan)}

\* The switch port of the cable: Importer._update_z_nbiface gives the
\* interface of the switch, created when the switch does not have it, in
\* the VLAN.
_update_z_nbiface(db, z_nbdevice, z_iface, vlan) ==
    [db EXCEPT !.interfaces =
         {i \in @ : ~(i.device = z_nbdevice.name /\ i.name = z_iface.name)}
         \cup {DcimInterface(z_nbdevice.name, z_iface.name, FALSE,
                              [name |-> vlan.name])}]

\* z_nbiface.cable
InterfaceCable(db, device, name) ==
    \E c \in db.cables : c.a = <<device, name>> \/ c.b = <<device, name>>

\* Importer._create_cable
_create_cable(db, device, z_nbdevice, z_iface, label) ==
    [db EXCEPT !.cables =
         @ \cup {DcimCable(<<device.name, PRIMARY_IFACE_NAME>>,
                           <<z_nbdevice.name, z_iface.name>>, label)}]

\* 'if assign_mgmt: self._assign_mgmt(device)'
AssignMgmt(db, device, assign_mgmt) ==
    IF assign_mgmt THEN _assign_mgmt(db, device) ELSE Provisioned(db, "")

\* The cable, unless the switch port has one.
CableSide(db, device, z_nbdevice, z_iface, cable_id, assign_mgmt) ==
    IF InterfaceCable(db, z_nbdevice.name, z_iface.name)
    THEN Provisioned(db, "There is already a cable")
    ELSE AssignMgmt(_create_cable(db, device, z_nbdevice, z_iface, cable_id),
                    device, assign_mgmt)

\* The switch side, after the primary interface.
SwitchSide(primary, device, vlan, z_nbdevice, data, assign_mgmt) ==
    IF primary.raised THEN primary
    ELSE IF data.z_iface = None
    THEN Provisioned(primary.db, "invalid port/type/device combination")
    ELSE CableSide(_update_z_nbiface(primary.db, z_nbdevice, data.z_iface, vlan),
                   device, z_nbdevice, data.z_iface, data.cable_id, assign_mgmt)

\* int(data["cassandra_instances"]), 0 on ValueError: the choices are '' and
\* the digits 0 to 5.
CassandraInstances(text) ==
    IF Len(text) = 1 /\ \E n \in 0..9 : DecStr(n) = text
    THEN CHOOSE n \in 0..9 : DecStr(n) = text
    ELSE 0

\* The VLAN is known: the primary interface unless the tenant is Fundraising
\* Tech, then the management interface.
WithVlan(db, device, vlan, z_nbdevice, data, assign_mgmt) ==
    IF vlan = None
    THEN Provisioned(db, "unable to find VLAN")
    ELSE IF ~_is_vlan_valid(db, vlan, device)
    THEN Provisioned(db, "invalid VLAN")
    ELSE IF device.tenant /= None /\ device.tenant.slug = FRACK_TENANT_SLUG
    THEN AssignMgmt(db, device, assign_mgmt)
    ELSE SwitchSide(_assign_primary(db, device, vlan, data.skip_ipv6_dns,
                                    CassandraInstances(data.cassandra_instances)),
                    device, vlan, z_nbdevice, data, assign_mgmt)

\* Mutation of OnlyMgmt: the name of the only interface is not looked at.
OnlyInterfaceWithName(db, ifaces) ==
    /\ Cardinality(ifaces) = 1
    /\ \A i \in ifaces :
           /\ Cardinality(InterfaceAddresses(db, i)) = 1
           /\ \A a \in InterfaceAddresses(db, i) : a.dns_name /= S("")

\* The only interface is the management interface, with one named address.
OnlyMgmt(db, ifaces) ==
    /\ Cardinality(ifaces) = 1
    /\ \A i \in ifaces :
           /\ i.name = MGMT_IFACE_NAME
           /\ Cardinality(InterfaceAddresses(db, i)) = 1
           /\ \A a \in InterfaceAddresses(db, i) : a.dns_name /= S("")

\* The checks of the interfaces of the device, with the switch chosen.
WithSwitch(db, device, z_nbdevice, data) ==
    IF DeviceInterfaces(db, device.name) /= {} /\ ~OnlyMgmt(db, DeviceInterfaces(db, device.name))
    THEN Provisioned(db, "interfaces already defined")
    ELSE WithVlan(db, device,
                  IF data.vlan_type /= S("")
                  THEN _get_vlan(db, data.vlan_type, device)
                  ELSE data.vlan,
                  z_nbdevice, data, DeviceInterfaces(db, device.name) = {})

\* The switch: the given one when it is in the rack of the server, else the
\* one find_tor finds.
ChooseSwitch(db, device, data) ==
    IF data.z_nbdevice = None
    THEN IF data.tor = None
         THEN Provisioned(db, "Can't find an adequate top-or-rack switch")
         ELSE WithSwitch(db, device, data.tor, data)
    ELSE IF data.z_nbdevice.rack /= device.rack
    THEN Provisioned(db, "switch not in same rack as server")
    ELSE WithSwitch(db, device, data.z_nbdevice, data)

\* provision_server(data) on the database db; data holds the parameters of
\* the form and what the helpers of _common answer in this call: tor is the
\* switch find_tor finds, duplicate what duplicate_cable_id says, z_iface the
\* name port_to_iface gives.
provision_server(db, device, data) ==
    IF data.vlan_type = S("") /\ data.vlan = None
    THEN Provisioned(db, "one parameter between VLAN Type and VLAN must be specified")
    ELSE IF data.vlan_type /= S("") /\ data.vlan /= None
    THEN Provisioned(db, "only one parameter between VLAN Type and VLAN can be specified")
    ELSE IF device.status \notin {"inventory", "planned"}
    THEN Provisioned(db, "expected Inventory or Planned")
    ELSE IF device.rack = None
    THEN Provisioned(db, "missing rack information")
    ELSE IF device.role /= "server"
    THEN Provisioned(db, "only servers are supported")
    ELSE IF data.cable_id /= S("") /\ data.duplicate
    THEN Provisioned(db, "Cable ID already assigned")
    ELSE ChooseSwitch(db, device, data)

-----------------------------------------------------------------------------
(* SpecProvision: provision_server called again and again on one database  *)

\* The calls of provision_server in one behaviour.
MaxCalls == 2

\* The hosts of the largest prefix.
MaxHosts == 4

RackA1 == DcimRack(S("A1"), S("eqiad-row-a"))

RackB1 == DcimRack(S("B1"), S("eqiad-row-b"))

Switches ==
    {DcimDevice(S("asw-a1"), "active", RackA1, "asw", None, S("eqiad")),
     DcimDevice(S("asw-b1"), "active", RackB1, "asw", None, S("eqiad"))}

\* The first server as the form may be given it, and as only the CSV import
\* may name it.
FirstServer == DcimDevice(S("db1001"), "planned", RackA1, "server", None, S("eqiad"))

OtherFirstServers ==
    {DcimDevice(S("db1001"), "active", RackA1, "server", None, S("eqiad")),
     DcimDevice(S("db1001"), "planned", None, "server", None, S("eqiad")),
     DcimDevice(S("db1001"), "planned", RackA1, "asw", None, S("eqiad")),
     DcimDevice(S("db1001"), "planned", RackA1, "server",
                DcimTenant(FRACK_TENANT_SLUG), S("eqiad")),
     DcimDevice(S("db1001"), "planned", RackA1, "server", None, S("ulsfo"))}

SecondServer == DcimDevice(S("db1002"), "inventory", RackA1, "server", None, S("eqiad"))

ServerNames == {S("db1001"), S("db1002")}

\* The interfaces and addresses the first server has before the first call.
MgmtInterface == DcimInterface(S("db1001"), MGMT_IFACE_NAME, TRUE, None)

RevenueInterface == DcimInterface(S("db1001"), S("eno1"), FALSE, None)

MgmtAddress(host, dns_name) ==
    IpamIPAddress(HostAddress(<<S("eqiad"), 0>>, host), dns_name, 4, MgmtInterface)

ProvisionedBefore(interfaces, ip_addresses) ==
    [interfaces |-> interfaces, ip_addresses |-> ip_addresses]

FirstServerBefore ==
    {ProvisionedBefore({}, {}),
     ProvisionedBefore({MgmtInterface},
                       {MgmtAddress(1, S("db1001.mgmt.eqiad.wmnet"))}),
     ProvisionedBefore({MgmtInterface}, {MgmtAddress(1, S(""))}),
     ProvisionedBefore({MgmtInterface}, {}),
     ProvisionedBefore({MgmtInterface},
                       {MgmtAddress(1, S("db1001.mgmt.eqiad.wmnet")),
                        MgmtAddress(2, S("wmf1234.mgmt.eqiad.wmnet"))}),
     ProvisionedBefore({RevenueInterface},
                       {IpamIPAddress(HostAddress(<<S("eqiad"), 0>>, 1),
                                      S("db1001.eqiad.wmnet"), 4, RevenueInterface)}),
     ProvisionedBefore({MgmtInterface, RevenueInterface},
                       {MgmtAddress(1, S("db1001.mgmt.eqiad.wmnet"))})}

\* The VLAN of the rack, under its new or its old name.
VlanPool ==
    {IpamVLAN(n, S("eqiad"), None, p[1], p[2], size, TRUE, {}) :
         n \in {S("private1-a1-eqiad"), S("private1-a-eqiad")},
         p \in {<<1, 1>>, <<1, 0>>, <<0, 0>>, <<1, 2>>},
         size \in {1, MaxHosts}}
    \cup
    {IpamVLAN(S("private1-a1-eqiad"), S("codfw"), None, 1, 1, MaxHosts, TRUE, {}),
     IpamVLAN(S("private1-a1-eqiad"), S("eqiad"), None, 1, 1, MaxHosts, TRUE, {RackB1}),
     IpamVLAN(S("public1-a1-eqiad"), S("eqiad"), None, 1, 1, MaxHosts, FALSE, {RackA1}),
     IpamVLAN(S("private1-ulsfo"), S("ulsfo"), None, 1, 0, MaxHosts, TRUE, {})}

\* The cable that may already be on the switch port.
OldCable == DcimCable(<<S("gone1001"), S("eno1")>>, <<S("asw-a1"), S("ge-0/0/1")>>, S("c0"))

\* The database before the first call.
Database(first, before, vlans, mgmt_prefix, cables) ==
    [devices |-> [n \in ServerNames \cup {s.name : s \in Switches} |->
                      IF n = first.name THEN first
                      ELSE IF n = SecondServer.name THEN SecondServer
                      ELSE CHOOSE s \in Switches : s.name = n],
     interfaces |-> before.interfaces,
     ip_addresses |-> before.ip_addresses,
     cables |-> cables,
     vlans |-> vlans,
     mgmt_prefix |-> mgmt_prefix]

Databases ==
    {Database(FirstServer, b, v, m, c) :
         b \in FirstServerBefore, v \in {{}} \cup {{x} : x \in VlanPool},
         m \in {None, MgmtPrefix(MaxHosts)}, c \in {{}, {OldCable}}}
    \cup
    {Database(f, ProvisionedBefore({}, {}), {v}, MgmtPrefix(MaxHosts), {}) :
         f \in OtherFirstServers, v \in VlanPool}

\* The parameters of a call and the answers of the helpers of _common.
ProvisionData(vlan_type, vlan, z_nbdevice, tor, z_iface, cable_id, duplicate,
              skip_ipv6_dns, cassandra_instances) ==
    [vlan_type |-> vlan_type, vlan |-> vlan, z_nbdevice |-> z_nbdevice, tor |-> tor,
     z_iface |-> z_iface, cable_id |-> cable_id, duplicate |-> duplicate,
     skip_ipv6_dns |-> skip_ipv6_dns, cassandra_instances |-> cassandra_instances]

SwitchA1 == CHOOSE s \in Switches : s.name = S("asw-a1")

SwitchB1 == CHOOSE s \in Switches : s.name = S("asw-b1")

SwitchPort == [name |-> S("ge-0/0/1")]

\* The calls whose checks pass, with every answer about the switch port, and
\* the calls that differ from them in one parameter.
ProvisionCalls(db) ==
    {ProvisionData(S("private"), None, SwitchA1, None, z, S("c1"), FALSE, skip, n) :
         z \in {None, SwitchPort}, skip \in BOOLEAN, n \in {S(""), S("2")}}
    \cup
    {ProvisionData(t, None, SwitchA1, None, SwitchPort, S("c1"), FALSE, FALSE, S("")) :
         t \in {S("public"), S("analytics")}}
    \cup
    {ProvisionData(S(""), v, None, SwitchA1, z, S(""), FALSE, FALSE, S("0")) :
         v \in db.vlans, z \in {None, SwitchPort}}
    \cup
    {ProvisionData(S(""), None, SwitchA1, None, SwitchPort, S(""), FALSE, FALSE, S("")),
     ProvisionData(S("private"), None, SwitchA1, None, SwitchPort, S("c1"), TRUE,
                   FALSE, S("")),
     ProvisionData(S("private"), None, None, None, SwitchPort, S(""), TRUE, FALSE, S("")),
     ProvisionData(S("private"), None, SwitchB1, None, SwitchPort, S(""), FALSE,
                   FALSE, S(""))}
    \cup
    {ProvisionData(S("private"), v, SwitchA1, None, SwitchPort, S(""), FALSE, FALSE,
                   S("")) : v \in db.vlans}

InitProvision ==
    /\ pc = "idle"
    /\ args = [device |-> S("")]
    /\ ret = NoRet
    /\ netbox \in Databases
    /\ zones = EmptyZones
    /\ records_count = 0
    /\ NoWorkflow

\* What the call leaves: an exception leaves the database as it is at the
\* raise, or as it was before the call when the transaction is rolled back.
Ran(name, run) ==
    /\ netbox' \in IF run.raised THEN {netbox, run.db} ELSE {run.db}
    /\ ret' = [kind |-> IF run.raised THEN "raise" ELSE "return",
               outcome |-> run.outcome]
    /\ args' = [device |-> name]

\* ProvisionServerNetwork.run: provision_server(data) for a device.
ProvisionServer ==
    /\ pc = "idle"
    /\ records_count < MaxCalls
    /\ \E name \in ServerNames, data \in ProvisionCalls(netbox) :
           Ran(name, provision_server(netbox, netbox.devices[name], data))
    /\ records_count' = records_count + 1
    /\ UNCHANGED <<pc, zones>>
    /\ UNCHANGED workflow

NextProvision == ProvisionServer

SpecProvision == InitProvision /\ [][NextProvision]_vars

-----------------------------------------------------------------------------
(* Claims on _generate_address_records (SpecRecords)                       *)

\* The call is for a physical device whose role is 'server'.
ArgsPhysicalServer ==
    args.physical /\ args.device /= None /\ args.device.device_role = "server"

\* The forward record keyed on the supplied hostname.
ArgsHostnameRecord ==
    [zone |-> args.zone, hostname |-> args.hostname,
     interface |-> args.address.address, ip |-> args.address.address.ip]

\* The forward record keyed on the lowercased asset tag of the device.
ArgsAssetTagRecord ==
    [zone |-> args.zone, hostname |-> Lower(args.device.asset_tag),
     interface |-> args.address.address, ip |-> args.address.address.ip]

ArgsMgmtOnlyStatus == args.device.status \in {"inventory", "decommissioning"}

ArgsMgmtOnlyInterface ==
    args.address.interface /= None /\ args.address.interface.mgmt_only

C3_SingleRecordUnlessPhysicalServer ==
    (pc = "return" /\ ~ArgsPhysicalServer) => ret = <<ArgsHostnameRecord>>

C3_Witness ==
    /\ pc = "return"
    /\ args.physical
    /\ args.device /= None
    /\ args.device.device_role = "asw"
    /\ args.device.status = "inventory"
    /\ ArgsMgmtOnlyInterface
    /\ ret = <<ArgsHostnameRecord>>

-----------------------------------------------------------------------------
(* Claims on _split_dns_name (SpecSplit)                                   *)

\* k: how many of 'frack', 'mgmt', 'svc' are a label of the name.
ArgsExtraLabels ==
    Cardinality({lit \in {S("frack"), S("mgmt"), S("svc")} :
                    \E i \in DOMAIN args.labels : args.labels[i] = lit})

\* The labels of the zone and of the hostname as the claim counts them.
ArgsZoneLen == Min(2 + ArgsExtraLabels, Len(args.labels) - 1)

ArgsZone ==
    Join(SubSeq(args.labels, Len(args.labels) - ArgsZoneLen + 1, Len(args.labels)),
         S("."))

ArgsHostname ==
    Join(SubSeq(args.labels, 1, Len(args.labels) - ArgsZoneLen), S("."))

\* C4: a name of n >= 2 labels, surrounding whitespace trimmed, is split into
\* the zone, its last min(2 + k, n - 1) labels, and the hostname, the labels
\* before them; 'foo.mgmt.frack.eqiad.wmnet' gives 'foo' and
\* 'mgmt.frack.eqiad.wmnet'.
C4_SplitPoint ==
    (pc = "return" /\ ret.kind = "return" /\ Len(args.labels) >= 2) =>
        /\ ret.zone = ArgsZone
        /\ ret.hostname = ArgsHostname
        /\ args.labels = <<S("foo"), S("mgmt"), S("frack"), S("eqiad"), S("wmnet")>> =>
               /\ ret.hostname = S("foo")
               /\ ret.zone = S("mgmt.frack.eqiad.wmnet")

C4_Witness ==
    /\ pc = "return"
    /\ args.address.dns_name = S(" foo.mgmt.frack.eqiad.wmnet\n")
    /\ ret.kind = "return"
    /\ ret.hostname = S("foo")
    /\ ret.zone = S("mgmt.frack.eqiad.wmnet")

\* C5: for every non-empty name, a single label included, the hostname keeps at
\* least one label and the zone is not the whole name.
C5_HostnameKeepsALabel ==
    (pc = "return" /\ ret.kind = "return") =>
        /\ ret.hostname /= <<>>
        /\ ret.zone /= Join(args.labels, S("."))

\* The prefixes that contain the address, and the longest of them.
ArgsMatching ==
    {p \in netbox.prefixes : InNetwork(args.address.address.ip, p.network)}

ArgsMostSpecific ==
    CHOOSE p \in ArgsMatching :
        \A q \in ArgsMatching : q.network.prefixlen <= p.network.prefixlen

\* C6: when the zone does not end in '.wmnet' and some prefix contains the
\* address, the zone file name is the zone, '-', and the site slug of the most
\* specific prefix containing the address.
C6_SuffixOfMostSpecificPrefix ==
    ( /\ pc = "return"
      /\ ret.kind = "return"
      /\ ~EndsWith(ret.zone, S(".wmnet"))
      /\ ArgsMatching /= {}
      /\ ArgsMostSpecific.site /= None )
        => ret.zone_name = ret.zone \o S("-") \o ArgsMostSpecific.site.slug

\* C7: a zone ending in '.wmnet' gets no suffix; for another zone, when no
\* prefix contains the address the suffix is the site of the device owning the
\* interface of the address, and when neither a prefix nor an owning device
\* yields a site the suffix is 'global'.
C7_SuffixFallback ==
    (pc = "return" /\ Len(args.labels) >= 2) =>
        /\ EndsWith(ArgsZone, S(".wmnet")) =>
               (ret.kind = "return" /\ ret.zone_name = ArgsZone)
        /\ ( /\ ~EndsWith(ArgsZone, S(".wmnet"))
             /\ ArgsMatching = {}
             /\ args.address.interface /= None
             /\ args.address.interface.physical )
               => /\ ret.kind = "return"
                  /\ ret.zone_name =
                         ArgsZone \o S("-") \o args.address.interface.device.site.slug
        /\ ( /\ ~EndsWith(ArgsZone, S(".wmnet"))
             /\ \A p \in ArgsMatching : p.site = None
             /\ \/ args.address.interface = None
                \/ ~args.address.interface.physical )
               => /\ ret.kind = "return"
                  /\ ret.zone_name = ArgsZone \o S("-global")

-----------------------------------------------------------------------------
(* Claims on get_reverse (SpecReverse)                                     *)

\* The prefixes that contain the IP of the record.
RecordMatching ==
    {p \in netbox.prefixes : InNetwork(args.record.ip, p.network)}

\* The greatest length among the matching prefixes.
RecordLongestMatch ==
    CHOOSE p \in RecordMatching :
        \A q \in RecordMatching : q.network.prefixlen <= p.network.prefixlen

\* The matching prefixes of length <= 29, to which longer ones are consolidated.
RecordMatchingUpTo29 == {p \in RecordMatching : p.network.prefixlen <= 29}

\* The prefix selected for a sub-/24 address: the longest matching one, or when
\* that is longer than /29 the longest one of length <= 29.
RecordSelected ==
    IF RecordLongestMatch.network.prefixlen <= 29
    THEN RecordLongestMatch
    ELSE CHOOSE p \in RecordMatchingUpTo29 :
             \A q \in RecordMatchingUpTo29 : q.network.prefixlen <= p.network.prefixlen

\* The in-addr.arpa zone of the /24 of the record: its first three octets,
\* reversed.
RecordZone24 ==
    DecStr(args.record.ip.parts[3]) \o S(".") \o DecStr(args.record.ip.parts[2])
        \o S(".") \o DecStr(args.record.ip.parts[1]) \o S(".in-addr.arpa")

\* C9: an IPv4 address inside some prefix whose own prefix length is <= 24, or
\* is longer while the selected prefix has length <= 24, gets the pointer of
\* its last octet in the in-addr.arpa zone of its /24, whatever longer prefixes
\* are configured; 10.0.0.5/24 in 10.0.0.0/24 gives '5' in
\* '0.0.10.in-addr.arpa'.
C9_DefaultSplitAt24 ==
    ( /\ pc = "return"
      /\ args.record.ip.version = 4
      /\ RecordMatching /= {}
      /\ \/ args.record.interface.prefixlen <= 24
         \/ /\ \/ RecordLongestMatch.network.prefixlen <= 29
               \/ RecordMatchingUpTo29 /= {}
            /\ RecordSelected.network.prefixlen <= 24 )
        => /\ ret.kind = "ReverseRecord"
           /\ ret.pointer = DecStr(args.record.ip.parts[4])
           /\ ret.zone = RecordZone24
           /\ ( /\ args.record.interface = IpInterface(IPv4(10, 0, 0, 5), 24)
                /\ Prefix(IpNetwork(IPv4(10, 0, 0, 0), 24), None) \in netbox.prefixes )
                  => (ret.pointer = S("5") /\ ret.zone = S("0.0.10.in-addr.arpa"))

C9_Witness ==
    /\ pc = "return"
    /\ args.record.interface = IpInterface(IPv4(10, 0, 0, 5), 32)
    /\ netbox.prefixes =
           {Prefix(IpNetwork(IPv4(10, 0, 0, 5), 32), None),
            Prefix(IpNetwork(IPv4(10, 0, 0, 0), 24), None),
            Prefix(IpNetwork(IPv4(10, 0, 0, 0), 8), None)}
    /\ ret.kind = "ReverseRecord"
    /\ ret.pointer = S("5")
    /\ ret.zone = S("0.0.10.in-addr.arpa")

\* C10: for an IPv4 address whose own prefix length is > 24 the prefix used is
\* the matching prefix of the greatest length; when that length is 25..29 the
\* zone is '<last octet of the network>-<length>' followed by the other three
\* octets reversed and in-addr.arpa, and the pointer is the last octet of the
\* address; 10.0.0.5/28 with 10.0.0.0/28 and 10.0.0.0/24 gives '5' in
\* '0-28.0.0.10.in-addr.arpa'.
C10_Rfc2317Zone ==
    ( /\ pc = "return"
      /\ args.record.ip.version = 4
      /\ args.record.interface.prefixlen > 24
      /\ RecordMatching /= {}
      /\ RecordLongestMatch.network.prefixlen > 24
      /\ RecordLongestMatch.network.prefixlen <= 29 )
        => /\ ret.kind = "ReverseRecord"
           /\ ret.pointer = DecStr(args.record.ip.parts[4])
           /\ ret.zone =
                  DecStr(RecordLongestMatch.network.network_address.parts[4]) \o S("-")
                      \o DecStr(RecordLongestMatch.network.prefixlen) \o S(".")
                      \o RecordZone24
           /\ ( /\ args.record.interface = IpInterface(IPv4(10, 0, 0, 5), 28)
                /\ netbox.prefixes =
                       {Prefix(IpNetwork(IPv4(10, 0, 0, 0), 28), None),
                        Prefix(IpNetwork(IPv4(10, 0, 0, 0), 24), None)} )
                  => (ret.pointer = S("5") /\ ret.zone = S("0-28.0.0.10.in-addr.arpa"))

C10_Witness ==
    /\ pc = "return"
    /\ args.record.interface = IpInterface(IPv4(10, 0, 0, 5), 28)
    /\ netbox.prefixes =
           {Prefix(IpNetwork(IPv4(10, 0, 0, 0), 28), None),
            Prefix(IpNetwork(IPv4(10, 0, 0, 0), 24), None)}
    /\ ret.kind = "ReverseRecord"
    /\ ret.pointer = S("5")
    /\ ret.zone = S("0-28.0.0.10.in-addr.arpa")

\* The nibbles hi down to lo of an IPv6 address as dotted hexadecimal labels.
NibbleLabels(ip, hi, lo) ==
    Join([i \in 1..(hi - lo + 1) |-> <<HexDigits[ip.parts[hi + 1 - i] + 1]>>], S("."))

\* C12: for an IPv6 address inside some configured prefix the pointer is the 16
\* nibbles of the low 64 bits, least significant first, and the zone the 16
\* nibbles of the /64 followed by ip6.arpa, whatever the prefix length of the
\* address and whichever prefixes match; 2620:0:861:1::5 gives the pointer
\* '5.0.0.0.0.0.0.0.0.0.0.0.0.0.0.0' in '1.0.0.0.1.6.8.0.0.0.0.0.0.2.6.2.ip6.arpa'.
C12_Ipv6SplitAt64 ==
    ( /\ pc = "return"
      /\ args.record.ip.version = 6
      /\ RecordMatching /= {} )
        => /\ ret.kind = "ReverseRecord"
           /\ ret.pointer = NibbleLabels(args.record.ip, 32, 17)
           /\ ret.zone = NibbleLabels(args.record.ip, 16, 1) \o S(".ip6.arpa")
           /\ args.record.ip = V6Host =>
                  /\ ret.pointer = S("5.0.0.0.0.0.0.0.0.0.0.0.0.0.0.0")
                  /\ ret.zone = S("1.0.0.0.1.6.8.0.0.0.0.0.0.2.6.2.ip6.arpa")

\* 2620:0:861:1::5/128 inside its /128 and the /48.
C12_Witness ==
    /\ pc = "return"
    /\ args.record.interface = IpInterface(V6Host, 128)
    /\ netbox.prefixes =
           {Prefix(IpNetwork(V6Host, 48), None), Prefix(IpNetwork(V6Host, 128), None)}
    /\ ret.kind = "ReverseRecord"
    /\ ret.pointer = S("5.0.0.0.0.0.0.0.0.0.0.0.0.0.0.0")
    /\ ret.zone = S("1.0.0.0.1.6.8.0.0.0.0.0.0.2.6.2.ip6.arpa")

-----------------------------------------------------------------------------
(* Claims on generate (SpecGenerate)                                       *)

\* No configured prefix contains the address.
InNoPrefix(address) ==
    \A p \in netbox.prefixes : ~InNetwork(address.address.ip, p.network)

\* The forward records generate() derives from an address of a device.
DerivedRecords(device_data, address) ==
    LET split == _split_dns_name(address, netbox.prefixes)
    IN  _generate_address_records(split.zone, split.hostname, address,
                                  device_data.device, device_data.physical)

\* The (device data, address) pairs generate() visits.
CollectedPairs ==
    UNION {{<<d, a>> : a \in d.addresses} : d \in netbox.devices}

RECURSIVE DerivedCount(_)
DerivedCount(pairs) ==
    IF pairs = {} THEN 0
    ELSE LET pair == CHOOSE x \in pairs : TRUE
         IN  Len(DerivedRecords(pair[1], pair[2])) + DerivedCount(pairs \ {pair})

UnassignedV4 ==
    Address(IpInterface(IPv4(192, 0, 2, 7), 24), S("foo.wikimedia.org"), None)

\* C8: when generate() completes, an address (IPv4 or IPv6) that no configured
\* prefix contains has no PTR record in any reverse zone, get_reverse returning
\* None for its forward records, while these are in their direct zone and
\* counted in records_count.
C8_NoReverseOutsidePrefixes ==
    (pc = "return" /\ ret.kind = "return") =>
        /\ \A pair \in CollectedPairs :
               InNoPrefix(pair[2]) =>
                   /\ \A e \in zones.reverse : e.record.ip /= pair[2].address.ip
                   /\ \A i \in DOMAIN DerivedRecords(pair[1], pair[2]) :
                          LET record == DerivedRecords(pair[1], pair[2])[i]
                          IN  /\ get_reverse(record, netbox.prefixes) = None
                              /\ \E e \in zones.direct :
                                     /\ e.record = record
                                     /\ e.zone = _split_dns_name(
                                                     pair[2], netbox.prefixes).zone_name
        /\ records_count = DerivedCount(CollectedPairs)
        /\ (\E d \in netbox.devices : UnassignedV4 \in d.addresses) =>
               /\ \E e \in zones.direct :
                      /\ e.zone = S("wikimedia.org-global")
                      /\ e.record.hostname = S("foo")
                      /\ e.record.ip = IPv4(192, 0, 2, 7)
               /\ \A e \in zones.reverse : e.record.ip /= IPv4(192, 0, 2, 7)
               /\ records_count >= 1

C8_Witness ==
    /\ pc = "return"
    /\ ret.kind = "return"
    /\ netbox.prefixes /= {}
    /\ \E d \in netbox.devices :
           /\ UnassignedV4 \in d.addresses
           /\ Address(IpInterface(V6External, 64), S("foo.wikimedia.org"), None)
                  \in d.addresses
    /\ \E d \in netbox.devices :
           /\ d.name = S("db1001")
           /\ Cardinality(d.addresses) = 1
    /\ records_count = 3
    /\ Cardinality(zones.direct) = 3
    /\ Cardinality(zones.reverse) = 1

\* The configured prefixes that contain the address, and those of them of
\* length <= 29.
PairMatching(address) ==
    {p \in netbox.prefixes : InNetwork(address.address.ip, p.network)}

PairMatchingUpTo29(address) ==
    {p \in PairMatching(address) : p.network.prefixlen <= 29}

\* The in-addr.arpa zone of the /24 of an IPv4 address.
Zone24(ip) ==
    DecStr(ip.parts[3]) \o S(".") \o DecStr(ip.parts[2]) \o S(".")
        \o DecStr(ip.parts[1]) \o S(".in-addr.arpa")

\* The reverse zone that belongs to a prefix chosen for an IPv4 address.
ZoneOfPrefix(ip, prefix) ==
    IF prefix.network.prefixlen > 24
    THEN DecStr(prefix.network.network_address.parts[4]) \o S("-")
             \o DecStr(prefix.network.prefixlen) \o S(".") \o Zone24(ip)
    ELSE Zone24(ip)

\* The sub-/24 IPv4 addresses generate() asks a reverse record for and whose
\* most specific matching prefix is longer than /29.
ConsolidatedPairs ==
    {pair \in CollectedPairs :
        /\ pair[2].address.ip.version = 4
        /\ pair[2].address.prefixlen > 24
        /\ \E p \in PairMatching(pair[2]) : p.network.prefixlen > 29
        /\ _split_dns_name(pair[2], netbox.prefixes).kind = "return"
        /\ DerivedRecords(pair[1], pair[2]) /= <<>>}

\* C11: for a sub-/24 IPv4 address whose most specific matching prefix is longer
\* than /29, the reverse zone is that of the most specific matching prefix of
\* length <= 29 and never that of a longer one; when no matching prefix of
\* length <= 29 exists generate() ends with an exception, StopIteration when
\* nothing else raised, no value is returned and the address has no PTR record.
C11_ConsolidateUpTo29OrFail ==
    pc = "return" =>
        \A pair \in ConsolidatedPairs :
            IF PairMatchingUpTo29(pair[2]) = {}
            THEN /\ ret.kind = "raise"
                 /\ ret.exc \in {"StopIteration", "AttributeError"}
                 /\ (\A other \in CollectedPairs :
                         _split_dns_name(other[2], netbox.prefixes).kind = "return")
                        => ret = Raise("StopIteration")
                 /\ \A e \in zones.reverse : e.record.ip /= pair[2].address.ip
            ELSE ret.kind = "return" =>
                     /\ \E e \in zones.reverse :
                            /\ e.record.ip = pair[2].address.ip
                            /\ \E p \in PairMatchingUpTo29(pair[2]) :
                                   /\ \A q \in PairMatchingUpTo29(pair[2]) :
                                          q.network.prefixlen <= p.network.prefixlen
                                   /\ e.zone = ZoneOfPrefix(e.record.ip, p)
                     /\ \A e \in zones.reverse :
                            e.record.ip = pair[2].address.ip =>
                                e.zone /= S("4-30.0.0.10.in-addr.arpa")

\* generate() aborted by StopIteration for 10.0.0.6/28 inside 10.0.0.4/30 only,
\* before the address of the server was visited.
C11_Witness ==
    /\ pc = "return"
    /\ ret = Raise("StopIteration")
    /\ netbox.prefixes \subseteq
           {Prefix(IpNetwork(IPv4(10, 0, 0, 4), 30), Site(S("eqiad"))),
            Prefix(IpNetwork(V6Host, 64), Site(S("eqiad")))}
    /\ ConsolidatedPairs /= {}
    /\ records_count < DerivedCount(CollectedPairs)

\* The address 10.0.0.6/28 consolidated from 10.0.0.4/30 into 10.0.0.0/28.
C11_WitnessConsolidated ==
    /\ pc = "return"
    /\ ret.kind = "return"
    /\ ConsolidatedPairs /= {}
    /\ \E e \in zones.reverse :
           e.record.ip = IPv4(10, 0, 0, 6) /\ e.zone = S("0-28.0.0.10.in-addr.arpa")

-----------------------------------------------------------------------------
(* Claims on validate_delta and validate (SpecValidate)                    *)

\* The records of warning level or above among the events, as <<level, what>>.
Alerts ==
    LET alerts == SelectSeq(events, LAMBDA e : e.kind = "log"
                                                /\ e.level \in {"WARNING", "ERROR"})
    IN  [i \in DOMAIN alerts |-> <<alerts[i].level, alerts[i].what>>]

\* The percentage changed * 100 / existing is strictly above the threshold:
\* its integral part is, or equals it with a remainder.
PercentAbove(changed, existing, threshold) ==
    \/ (changed * 100) \div existing > threshold
    \/ /\ (changed * 100) \div existing = threshold
       /\ (changed * 100) % existing > 0

\* The alert the claim gives for the counts and the thresholds.
ExpectedAlerts(changed, existing, warning, error, what) ==
    IF existing = 0 THEN <<>>
    ELSE IF PercentAbove(changed, existing, error) THEN <<(<<"ERROR", what>>)>>
    ELSE IF PercentAbove(changed, existing, warning) THEN <<(<<"WARNING", what>>)>>
    ELSE <<>>

\* C13: validate_delta emits nothing at all when existing is 0; otherwise the
\* error when the percentage is strictly above the error threshold, the warning
\* when it is strictly above the warning threshold and not above the error
\* threshold, and nothing of warning level or above otherwise (5 of 100 lines is
\* a warning, 6 an error, 3 nothing); validate applies 8/15 to the files and 3/5
\* to the lines; both return None.
C13_ValidateDeltaThresholds ==
    pc = "return" =>
        /\ ret = None
        /\ args.call = "validate_delta" =>
               /\ args.existing = 0 => events = <<>>
               /\ Alerts = ExpectedAlerts(args.changed, args.existing, args.warning,
                                          args.error, args.what)
               /\ (args.existing = 100 /\ args.what = "lines") =>
                      Alerts = IF args.changed >= 6 THEN <<(<<"ERROR", "lines">>)>>
                               ELSE IF args.changed >= 4 THEN <<(<<"WARNING", "lines">>)>>
                               ELSE <<>>
               /\ (args.existing = 100 /\ args.what = "files") =>
                      Alerts = IF args.changed >= 16 THEN <<(<<"ERROR", "files">>)>>
                               ELSE IF args.changed >= 9 THEN <<(<<"WARNING", "files">>)>>
                               ELSE <<>>
        /\ args.call = "validate" =>
               Alerts = ExpectedAlerts(args.delta.files, args.files, 8, 15, "files")
                            \o ExpectedAlerts(args.delta.lines, args.lines, 3, 5, "lines")

\* 15 of 100 files changed warn (not above 15%), 6 of 100 lines are an error.
C13_Witness ==
    /\ pc = "return"
    /\ args.call = "validate"
    /\ args.files = 100 /\ args.delta.files = 15
    /\ args.lines = 100 /\ args.delta.lines = 6
    /\ Alerts = <<(<<"WARNING", "files">>), (<<"ERROR", "lines">>)>>

-----------------------------------------------------------------------------
(* Claims on the commit and push workflow (SpecMain)                       *)

\* The event happened in the run so far.
Happened(e) == \E i \in DOMAIN events : events[i] = e

\* A record with the message was logged.
Logged(msg) == \E i \in DOMAIN events : events[i].kind = "log" /\ events[i].msg = msg

\* The operator was asked whether to push.
Confirmed ==
    \E i \in DOMAIN events : events[i].kind = "input" /\ events[i].prompt = "OK to push"

\* The try block was left by an exception.
Failed == Logged("Failed to run")

\* main() is in or past its 'finally' block.
PastTry == pc \in {"finally", "after_finally", "done"}

\* commit_changes() staged the snippets of a commit run and found no difference
\* to the head commit.
StagedWithoutDiff ==
    /\ args.command = "commit"
    /\ Happened(GitOp("add"))
    /\ ~repo.differs

\* C14 as stated: without a diff of the staged tree against the head commit the
\* run ends with exit code 99, and no commit, validation, confirmation or push
\* happens.
C14_NoDiffEndsInNoChanges ==
    (StagedWithoutDiff /\ ~Failed) =>
        /\ ~Happened(GitOp("commit"))
        /\ ~Logged("Validating generated data")
        /\ ~Confirmed
        /\ ~Happened(GitOp("push"))
        /\ pc = "done" => ret = Return(NO_CHANGES_RETURN_CODE)

\* C14 amended: without a diff of the staged tree against the head commit and
\* without --keep-files, run_commit returns 99 and no commit, validation,
\* confirmation or push happens; main() exits with 99, or with 0 in Icinga check
\* mode.  With --keep-files an empty commit is made and the run goes on.
C14_NoDiffEndsInNoChangesUnlessKeepFiles ==
    (StagedWithoutDiff /\ ~Failed) =>
        IF args.keep_files
        THEN /\ Happened(GitOp("commit"))
             /\ repo.head = "new"
             /\ frame.commit = Commit("new", 0, 0)
             /\ PastTry => frame.ret_code /= NO_CHANGES_RETURN_CODE
        ELSE /\ ~Happened(GitOp("commit"))
             /\ repo.head = "base"
             /\ ~Logged("Validating generated data")
             /\ ~Confirmed
             /\ ~Happened(GitOp("push"))
             /\ PastTry
             /\ frame.ret_code = NO_CHANGES_RETURN_CODE
             /\ pc = "done" =>
                    ret = Return(IF args.icinga_check THEN 0 ELSE NO_CHANGES_RETURN_CODE)

\* An interactive run without a diff that ended with 99.
C14_Witness ==
    /\ pc = "done"
    /\ StagedWithoutDiff
    /\ ~args.keep_files
    /\ ~args.batch
    /\ ret = Return(NO_CHANGES_RETURN_CODE)
    /\ ~tmpdir.on_disk

\* Every occurrence of the event later comes after an occurrence of earlier.
Precedes(earlier, later) ==
    \A j \in DOMAIN events :
        events[j] = later => \E i \in 1..(j - 1) : events[i] = earlier

\* The answers the operator gave when asked whether to push.
ConfirmAnswers ==
    {events[i].answer : i \in {j \in DOMAIN events :
                                   /\ events[j].kind = "input"
                                   /\ events[j].prompt = "OK to push"}}

\* The stages of a commit run happened in the order write and git add, commit,
\* validation, confirmation, push; a push only after the answer 'y'; any other
\* answer ends with ABORT_RETURN_CODE and without a push.
StagesInOrder ==
    /\ Precedes(LogRecord("INFO", "Generating zonefile snippets", ""), GitOp("add"))
    /\ Precedes(GitOp("add"), GitOp("commit"))
    /\ Precedes(GitOp("commit"), LogRecord("INFO", "Validating generated data", ""))
    /\ \A answer \in ConfirmAnswers :
           /\ Precedes(LogRecord("INFO", "Commit details", ""),
                       Input("OK to push", answer))
           /\ answer /= "y" =>
                  /\ ~Happened(GitOp("push"))
                  /\ repo.pushed = {}
                  /\ PastTry /\ frame.ret_code = ABORT_RETURN_CODE
                  /\ pc = "done" => ret = Return(ABORT_RETURN_CODE)
    /\ Precedes(Input("OK to push", "y"), GitOp("push"))
    /\ Happened(GitOp("push")) \/ repo = None \/ repo.pushed = {}

\* The run made a commit and went past its validation step without exception.
CommitMade ==
    /\ args.command = "commit"
    /\ Happened(GitOp("commit"))
    /\ pc /= "committed"
    /\ ~Failed

\* C15 as stated: the stages of a commit run happen in order, a push only after
\* the answer 'y', and the validation runs for every commit that was made.
C15_StagesInOrderAlwaysValidated ==
    args.command = "commit" =>
        /\ StagesInOrder
        /\ CommitMade => Logged("Validating generated data")

\* C15 amended: the stages of a commit run happen in order, a push only after
\* the answer 'y' and any other answer ending with exit code 3 and no push; the
\* validation runs for every commit that was made except in Icinga check mode,
\* where it is skipped and neither a confirmation nor a push follows.
C15_StagesInOrderValidatedUnlessIcinga ==
    args.command = "commit" =>
        /\ StagesInOrder
        /\ CommitMade =>
               IF args.icinga_check
               THEN /\ ~Logged("Validating generated data")
                    /\ ConfirmAnswers = {}
                    /\ ~Happened(GitOp("push"))
               ELSE /\ Logged("Validating generated data")
                    /\ Happened(PrintOut("git show", "new"))

\* The operator answered 'yes', which is not 'y': exit code 3 and no push.
C15_Witness ==
    /\ pc = "done"
    /\ args.command = "commit"
    /\ ConfirmAnswers = {"yes"}
    /\ Logged("Validating generated data")
    /\ ret = Return(ABORT_RETURN_CODE)
    /\ repo.pushed = {}

\* The operator answered 'y' and the commit was pushed.
C15_WitnessPushed ==
    /\ pc = "done"
    /\ args.command = "commit"
    /\ ConfirmAnswers = {"y"}
    /\ repo.pushed = {"new"}
    /\ ret = Return(0)

\* The operator was asked for input, whatever the prompt.
Prompted == \E i \in DOMAIN events : events[i].kind = "input"

\* The METADATA line with the path of the checkout and the SHA1 of its head.
MetadataReported ==
    \E i \in DOMAIN events :
        /\ events[i].kind = "print"
        /\ events[i].what = "METADATA"
        /\ events[i].value = BatchStatus(frame.commit)
        /\ events[i].value.path = "tmpdir"
        /\ events[i].value.sha1 = repo.head

\* A commit run in batch mode: never a prompt, never a push.
BatchNeverPromptsNorPushes ==
    (args.command = "commit" /\ (args.batch \/ args.icinga_check)) =>
        /\ ~Prompted
        /\ ~Happened(GitOp("push"))
        /\ repo = None \/ repo.pushed = {}

\* The push command removes the checkout only when the push returned 0, and
\* pushes the head of the checkout when it is the given SHA1.
PushCommandCleanup ==
    (args.command = "push" /\ pc = "done") =>
        /\ ~tmpdir.on_disk => (ret = Return(0) /\ repo.pushed = {args.sha1})
        /\ (repo.head = args.sha1 /\ ~Failed) => Happened(GitOp("push"))

\* A commit run in batch mode that made a commit has ended and nothing raised.
BatchCommitPrepared ==
    /\ args.command = "commit"
    /\ args.batch
    /\ pc = "done"
    /\ Happened(GitOp("commit"))
    /\ ~Failed
    /\ ret.kind = "return"

C16_WitnessPush ==
    /\ args.command = "push"
    /\ pc = "done"
    /\ ret = Return(0)
    /\ repo.pushed = {"new"}
    /\ ~tmpdir.on_disk

\* push() was called and returned: for the push command, or after the answer
\* 'y' of a commit run.
PushCalled ==
    /\ PastTry
    /\ args.command = "push" \/ "y" \in ConfirmAnswers
    /\ ~Failed

\* C17: the remote push is attempted only when the head of the checkout is the
\* SHA1 given by the caller; on a mismatch nothing is pushed and the result is
\* 5; an attempted push results in 4 when it reports an error, in 0 otherwise.
C17_PushOnlyMatchingHead ==
    /\ (frame /= None /\ Happened(GitOp("push"))) => repo.head = PushSha1
    /\ PushCalled =>
           IF repo.head /= PushSha1
           THEN /\ ~Happened(GitOp("push"))
                /\ repo.pushed = {}
                /\ frame.ret_code = INVALID_SHA1_RETURN_CODE
           ELSE /\ Happened(GitOp("push"))
                /\ IF Logged("Error pushing")
                   THEN frame.ret_code = PUSH_ERROR_RETURN_CODE /\ repo.pushed = {}
                   ELSE frame.ret_code = 0 /\ repo.pushed = {repo.head}

\* push <path> other, with the checkout at 'base': nothing pushed, 5 returned.
C17_Witness ==
    /\ pc = "done"
    /\ args.command = "push"
    /\ repo.head /= args.sha1
    /\ ret = Return(INVALID_SHA1_RETURN_CODE)
    /\ ~Happened(GitOp("push"))
    /\ tmpdir.on_disk

\* main() returned: the run ended with an exit code.
Returned == pc = "done" /\ ret.kind = "return"

\* The run succeeded: a commit was prepared in batch mode, or a push succeeded.
Succeeded ==
    \/ args.command = "commit" /\ args.batch /\ frame /= None
           /\ Happened(GitOp("commit")) /\ ~Failed
    \/ frame /= None /\ Logged("Pushed with") /\ repo.pushed = {repo.head}

\* The exit codes of the outcomes other than success, each returned exactly
\* when its outcome happened.
OutcomeCodes ==
    /\ ret = Return(NO_CHANGES_RETURN_CODE) <=> Logged("Nothing to commit!")
    /\ ret = Return(ABORT_RETURN_CODE) <=> Logged("Manually aborted.")
    /\ ret = Return(PUSH_ERROR_RETURN_CODE) <=> (Logged("Error pushing") /\ ~Failed)
    /\ ret = Return(INVALID_SHA1_RETURN_CODE)
           <=> Logged("Head SHA1 does not match given SHA1")
    /\ ret = Return(EXCEPTION_RETURN_CODE) <=> Failed

C18_WitnessNoChanges ==
    /\ Returned
    /\ args.command = "commit"
    /\ args.batch /\ ~args.icinga_check
    /\ Happened(PrintOut("METADATA", [no_changes |-> TRUE]))
    /\ ret = Return(NO_CHANGES_RETURN_CODE)

\* A commit run ended after a stage (collect, generate, clone, write, commit,
\* validate, push) raised.
CommitRunFailed ==
    /\ args.command = "commit"
    /\ pc = "done"
    /\ frame /= None
    /\ Failed
    /\ tmpdir.bound

\* C19 as stated: whenever a stage of a commit run raises, the run ends with
\* exit code 2 and the generated tree is still on disk when main() returns, in
\* every mode.
C19_FailedRunKeepsTree ==
    CommitRunFailed =>
        /\ ret = Return(EXCEPTION_RETURN_CODE)
        /\ tmpdir.on_disk

\* C19 amended: whenever a stage of a commit run raises, the run ends with exit
\* code 2; the tree is still on disk when main() returns in batch mode without
\* --icinga-check and in interactive mode with --keep-files; in interactive
\* mode without --keep-files it is removed once the operator has answered the
\* prompt that names the directory; in Icinga check mode it is removed without
\* a prompt.
C19_FailedRunKeepsTreeForInspection ==
    CommitRunFailed =>
        /\ ret = Return(EXCEPTION_RETURN_CODE)
        /\ IF args.icinga_check
           THEN ~tmpdir.on_disk /\ ~Prompted
           ELSE IF args.batch
           THEN tmpdir.on_disk /\ ~Happened(Rmtree) /\ ~Prompted
           ELSE /\ Happened(PrintOut("An error occurred", "tmpdir"))
                /\ Happened(Input("Press any key to cleanup", ""))
                /\ Precedes(Input("Press any key to cleanup", ""), Rmtree)
                /\ tmpdir.on_disk <=> args.keep_files

\* generate() raised StopIteration in an interactive run: exit code 2, and the
\* directory removed after the prompt.
C19_Witness ==
    /\ CommitRunFailed
    /\ ~args.batch /\ ~args.keep_files
    /\ Happened(LogRecord("ERROR", "Failed to run", "StopIteration"))
    /\ Happened(Input("Press any key to cleanup", ""))
    /\ ~tmpdir.on_disk
    /\ ret = Return(EXCEPTION_RETURN_CODE)

\* The push raised in an interactive run with --keep-files: the tree is kept.
C19_WitnessKept ==
    /\ CommitRunFailed
    /\ ~args.batch /\ args.keep_files
    /\ Happened(GitOp("push"))
    /\ tmpdir.on_disk /\ tmpdir.snippets
    /\ ret = Return(EXCEPTION_RETURN_CODE)

\* The CAUTION of generate() about the number of records.
Caution == LogRecord("ERROR", "CAUTION: less than the minimum limit", "records")

\* C20: generate() logs the CAUTION exactly when the forward records it produced
\* are fewer than min_records; it then has completed all the same, with every
\* derived record in its direct zone and counted, and the run goes on with the
\* clone, the writing of the snippets and the commit.
C20_RecordFloorIsAdvisory ==
    Logged("Generated records") =>
        /\ Happened(Caution) <=> records_count < args.min_records
        /\ records_count = DerivedCount(CollectedPairs)
        /\ \A pair \in CollectedPairs :
               \A i \in DOMAIN DerivedRecords(pair[1], pair[2]) :
                   \E e \in zones.direct :
                       e.record = DerivedRecords(pair[1], pair[2])[i]
        /\ \A i \in DOMAIN events :
               events[i] = Caution =>
                   /\ events[i - 1] = LogRecord("INFO", "Generated records", "")
                   /\ i < Len(events) =>
                          events[i + 1] \in
                              {LogRecord("INFO", "Cloning", ""),
                               LogRecord("ERROR", "Failed to run", "GitCommandError")}
        /\ (Happened(Caution) /\ pc = "setup_repo") =>
               /\ ~Failed
               /\ frame.ret_code = EXCEPTION_RETURN_CODE
               /\ frame.commit = None

\* One record where min_records is 2: the CAUTION was logged, and the run went
\* on to commit and push.
C20_Witness ==
    /\ pc = "done"
    /\ args.command = "commit"
    /\ args.min_records = 2
    /\ records_count = 1
    /\ Happened(Caution)
    /\ Cardinality(zones.direct) = 1
    /\ Precedes(Caution, GitOp("commit"))
    /\ Happened(GitOp("commit"))
    /\ repo.pushed = {"new"}
    /\ ret = Return(0)

-----------------------------------------------------------------------------
(* Claims on collect(), generate() and write_snippets() (SpecCollect)      *)

\* The files written for the direct zones and for the reverse zones.
DirectFiles == {f \in tmpdir : f.name \in ZoneNames(zones.direct)}

ReverseFiles == {f \in tmpdir : f.name \in ZoneNames(zones.reverse)}

\* str in line
Contains(line, str) ==
    \E i \in 1..(Len(line) - Len(str) + 1) : SubSeq(line, i, i + Len(str) - 1) = str

ALine(line) == Contains(line, S(" 1H IN A "))

PtrLine(line) == Contains(line, S(" 1H IN PTR "))

\* The snapshot holds one device, a server in the status active, no virtual
\* machine and one address: the primary IPv4 address the server declares,
\* with a DNS name and inside a configured /24 prefix.
OneServerOnePrimary ==
    /\ Len(args.api.devices) = 1
    /\ args.api.virtual_machines = <<>>
    /\ Len(args.api.ip_addresses) = 1
    /\ args.api.devices[1].device_role = "server"
    /\ args.api.devices[1].status = "active"
    /\ args.api.devices[1].primary_ip4 = Nested(args.api.ip_addresses[1].id)
    /\ args.api.devices[1].primary_ip6 = None
    /\ args.api.ip_addresses[1].address.ip.version = 4
    /\ args.api.ip_addresses[1].dns_name /= <<>>
    /\ \E p \in args.api.prefixes :
           /\ p.network.prefixlen = 24
           /\ InNetwork(args.api.ip_addresses[1].address.ip, p.network)

\* The one address is assigned to an interface of the server that is not for
\* management only.
PrimaryOnServerInterface ==
    \E i \in DOMAIN args.api.interfaces :
        /\ args.api.ip_addresses[1].interface = Nested(args.api.interfaces[i].id)
        /\ args.api.interfaces[i].device.name = args.api.devices[1].name
        /\ ~args.api.interfaces[i].mgmt_only

\* One record was counted; one file of a direct zone with one A line and one
\* file of a reverse zone with one PTR line were written.
OneRecordWritten ==
    /\ records_count = 1
    /\ Cardinality(DirectFiles) = 1
    /\ \A f \in DirectFiles : Len(f.lines) = 1 /\ ALine(f.lines[1])
    /\ Cardinality(ReverseFiles) = 1
    /\ \A f \in ReverseFiles : Len(f.lines) = 1 /\ PtrLine(f.lines[1])
    /\ tmpdir = DirectFiles \cup ReverseFiles

\* collect() or generate() raised, or write_snippets() returned.
Ended ==
    \/ pc = "raised"
    \/ pc = "return" /\ ret.kind = "raise"
    \/ pc = "written"

\* C21 as stated: for a snapshot of one active server with a single primary
\* IPv4 address that has a DNS name and lies in a configured /24, generate()
\* and write_snippets() count one record and write one direct zone file with
\* one A line and one reverse zone file with one PTR line.
C21_OneServerOneRecord ==
    (Ended /\ OneServerOnePrimary) => (pc = "written" /\ OneRecordWritten)

\* C21 amended: the same, for a primary address that is assigned to an
\* interface of the server which is not for management only.
C21_OneServerOneRecordOffManagement ==
    (Ended /\ OneServerOnePrimary /\ PrimaryOnServerInterface)
        => (pc = "written" /\ OneRecordWritten)

\* Witness for C21: the files of such a snapshot were written, the A line in
\* the file of the zone of the name.
C21_Witness ==
    /\ pc = "written"
    /\ OneServerOnePrimary
    /\ PrimaryOnServerInterface
    /\ \E f \in tmpdir :
           /\ f.name = S("eqiad.wmnet")
           /\ f.lines = <<Ljust(S("db1001"), 40) \o S(" 1H IN A 10.0.0.5") \o <<"\n">>>>
    /\ \E f \in tmpdir :
           /\ f.name = S("0.0.10.in-addr.arpa")
           /\ f.lines = <<S("5   1H IN PTR db1001.eqiad.wmnet.") \o <<"\n">>>>

\* The zone sets: the records stored under each zone name of both types.
ZoneSets ==
    {ZoneRecords(zones.direct, name) : name \in ZoneNames(zones.direct)} \cup
    {ZoneRecords(zones.reverse, name) : name \in ZoneNames(zones.reverse)}

\* Two records with the same zone, hostname and IP are stored once.
StoredOnce ==
    \A set \in ZoneSets : \A r1 \in set, r2 \in set :
        (r1.zone = r2.zone /\ r1.hostname = r2.hostname /\ r1.ip = r2.ip) => r1 = r2

\* The files that were written are the ones written for every order in which
\* generate() may insert the records and write_snippets() may iterate them.
SameFilesInEveryOrder ==
    \A order \in GenerateOrders(netbox.devices) :
        write_snippets({}, GenerateLoop(order, netbox.prefixes,
                                        LoopState("return", "", EmptyZones, 0)).zones)
            = {tmpdir}

\* C22 as stated: a zone set stores records with the same zone, hostname and
\* IP once, write_snippets() writes the same files whatever the order of
\* insertion, and two distinct records of a zone set never have the same sort
\* key.
C22_DedupAndDistinctKeys ==
    pc = "written" =>
        /\ StoredOnce
        /\ SameFilesInEveryOrder
        /\ \A set \in ZoneSets : \A r1 \in set, r2 \in set :
               r1 /= r2 => to_tuple(r1) /= to_tuple(r2)

\* C22 amended: the same, where two distinct records of a zone set that have
\* the same sort key are written as the same line.
C22_DedupAndSameLineForSameKey ==
    pc = "written" =>
        /\ StoredOnce
        /\ SameFilesInEveryOrder
        /\ \A set \in ZoneSets : \A r1 \in set, r2 \in set :
               to_tuple(r1) = to_tuple(r2) => Str(r1) = Str(r2)

\* Witness for C22: 10.0.0.5 is listed as /24 and as /32 under one name, two
\* forward records were counted and one line was written.
C22_Witness ==
    /\ pc = "written"
    /\ records_count = 2
    /\ {a.address.prefixlen : a \in UNION {d.addresses : d \in netbox.devices}} = {24, 32}
    /\ \E f \in tmpdir :
           /\ f.name = S("eqiad.wmnet")
           /\ f.lines = <<Ljust(S("db1001"), 40) \o S(" 1H IN A 10.0.0.5") \o <<"\n">>>>

\* Witness for C22: two distinct records of one zone file with the same sort
\* key, written as two equal lines.
C22_WitnessSameKey ==
    /\ pc = "written"
    /\ \E set \in ZoneSets : \E r1 \in set, r2 \in set :
           r1 /= r2 /\ to_tuple(r1) = to_tuple(r2)
    /\ \E f \in tmpdir : Len(f.lines) = 2 /\ f.lines[1] = f.lines[2]

\* The addresses, devices and virtual machines the API listed.
Listed == {args.api.ip_addresses[i] : i \in DOMAIN args.api.ip_addresses}

ListedDevices ==
    {args.api.devices[i] : i \in DOMAIN args.api.devices} \cup
    {args.api.virtual_machines[i] : i \in DOMAIN args.api.virtual_machines}

\* The name of the device or virtual machine of the interface with the id, as
\* a set: empty when the id is in neither list of interfaces.
InterfaceOwner(id) ==
    {args.api.interfaces[i].device.name :
         i \in {k \in DOMAIN args.api.interfaces : args.api.interfaces[k].id = id}} \cup
    {args.api.virtual_interfaces[i].virtual_machine.name :
         i \in {k \in DOMAIN args.api.virtual_interfaces :
                    args.api.virtual_interfaces[k].id = id}}

\* The interface the address refers to is in neither list of interfaces.
Unresolved(address) ==
    address.interface /= None /\ InterfaceOwner(address.interface.id) = {}

\* The primary addresses the devices and virtual machines declare.
DeclaredPrimaries(device) == {device.primary_ip4, device.primary_ip6} \ {None}

\* Every declared primary address is among the listed addresses.
PrimariesListed ==
    \A device \in ListedDevices : \A primary \in DeclaredPrimaries(device) :
        \E address \in Listed : address.id = primary.id

\* The ids of the addresses in the address set of the name after collect().
CollectedIds(name) ==
    {address.id : address \in UNION {d.addresses : d \in {x \in netbox.devices :
                                                             x.name = name}}}

\* The name the scan attributes a listed address to, as a set: the sentinel
\* for an address without interface, the collected owner of its interface.
ScanOwner(address) ==
    IF address.interface = None THEN {NO_DEVICE_NAME}
    ELSE InterfaceOwner(address.interface.id) \cap {d.name : d \in ListedDevices}

\* C25: an address whose interface is in neither list of interfaces is left
\* out of every address set and does not make collect() fail: the other
\* addresses with a DNS name are attributed as without it.
C25_UnresolvedInterfaceSkipped ==
    (pc /= "collect" /\ PrimariesListed) =>
        /\ pc /= "raised"
        /\ \A address \in Listed :
               /\ Unresolved(address) =>
                      \A d \in netbox.devices : address.id \notin CollectedIds(d.name)
               /\ address.dns_name /= <<>> =>
                      \A name \in ScanOwner(address) : address.id \in CollectedIds(name)

\* No listed address with a DNS name has the IP of the address.
OnlyUnnamed(address) ==
    \A other \in Listed : other.address.ip = address.address.ip => other.dns_name = <<>>

\* C26: no address with an empty DNS name is in an address set, whether
\* collect() returned or raised, and generate() makes no forward record for
\* it; once collect() has returned, an address without interface is under
\* NO_DEVICE_NAME exactly when its DNS name is not empty.
C26_NoUnnamedAddressCollected ==
    /\ \A d \in netbox.devices : \A address \in d.addresses : address.dns_name /= <<>>
    /\ \A address \in Listed :
           OnlyUnnamed(address) =>
               \A e \in zones.direct : e.record.ip /= address.address.ip
    /\ pc \notin {"collect", "raised"} =>
           \A address \in Listed :
               address.interface = None =>
                   (address.id \in CollectedIds(NO_DEVICE_NAME)
                        <=> address.dns_name /= <<>>)

\* Witness for C26: of two listed addresses without interface the one with a
\* DNS name is under NO_DEVICE_NAME and has its record, the other is not.
C26_Witness ==
    /\ pc = "written"
    /\ \E named \in Listed, unnamed \in Listed :
           /\ named.interface = None /\ named.dns_name /= <<>>
           /\ unnamed.interface = None /\ unnamed.dns_name = <<>>
           /\ CollectedIds(NO_DEVICE_NAME) = {named.id}
           /\ {e.record.ip : e \in zones.direct} = {named.address.ip}

\* Witness for C26: the declared primary address of a collected server has no
\* DNS name and is in no address set.
C26_WitnessPrimary ==
    /\ pc = "written"
    /\ \E device \in ListedDevices, address \in Listed :
           /\ device.primary_ip4 = Nested(address.id)
           /\ address.dns_name = <<>>
           /\ CollectedIds(device.name) = {}

\* C27: a declared primary address does not make collect() fail, and every
\* declared primary address with a DNS name is in the address set of its
\* device or virtual machine, attributed by the scan or not.
C27_PrimaryAlwaysIncluded ==
    (pc /= "collect" /\ \A address \in Listed : ~Unresolved(address)) =>
        /\ pc /= "raised"
        /\ \A device \in ListedDevices : \A primary \in DeclaredPrimaries(device) :
               \A address \in Listed :
                   (address.id = primary.id /\ address.dns_name /= <<>>)
                       => address.id \in CollectedIds(device.name)

-----------------------------------------------------------------------------
(* Claims on the order of the records (SpecSort)                           *)

\* The sorted records are the records that were given, each once.
SortedAll ==
    /\ Len(ret.value) = Len(args.records)
    /\ {ret.value[i] : i \in DOMAIN ret.value} = {args.records[i] : i \in DOMAIN args.records}

\* The hostname with its labels in reversed order.
LabelReversed(hostname) == Join(Reverse(Split(hostname, ".")), S("."))

\* The forward record r1 is due before r2: its label-reversed hostname is the
\* smaller string, or with the same hostname its exploded IP is.
ForwardBefore(r1, r2) ==
    \/ StrLt(LabelReversed(r1.hostname), LabelReversed(r2.hostname))
    \/ r1.hostname = r2.hostname /\ StrLt(Exploded(r1.ip), Exploded(r2.ip))

SortedForward == pc = "return" /\ \A i \in DOMAIN args.records : ~IsReverse(args.records[i])

\* C23: sorted() puts forward records in the order of their label-reversed
\* hostname, those of one hostname in the order of their exploded IP.
C23_ForwardOrder ==
    SortedForward =>
        /\ SortedAll
        /\ \A i \in DOMAIN ret.value : \A j \in DOMAIN ret.value :
               i < j => ForwardBefore(ret.value[i], ret.value[j])

\* Witness for C23: z.b.example.org was iterated before a.b.example.org and
\* is sorted after it, and b.a is sorted before a.b.example.org.
C23_Witness ==
    /\ SortedForward
    /\ Len(args.records) = 3
    /\ args.records[1].hostname = S("z.b.example.org")
    /\ args.records[2].hostname = S("a.b.example.org")
    /\ ret.value[1].hostname = S("b.a")
    /\ ret.value[2].hostname = S("a.b.example.org")
    /\ ret.value[3].hostname = S("z.b.example.org")

\* The part of the address the pointer is written from, as numbers: the last
\* octet of IPv4, the last 16 nibbles of IPv6.
PointerNumbers(record) ==
    IF record.ip.version = 4 THEN <<record.ip.parts[4]>>
    ELSE SubSeq(record.ip.parts, 17, 32)

\* a < b for two sequences of numbers of the same length.
RECURSIVE NumbersLt(_, _)
NumbersLt(a, b) ==
    /\ a /= <<>>
    /\ \/ Head(a) < Head(b)
       \/ Head(a) = Head(b) /\ NumbersLt(Tail(a), Tail(b))

\* The reverse record r1 is due before r2: its pointer is the smaller as
\* numbers, or with the same pointer its hostname is the smaller string.
ReverseBefore(r1, r2) ==
    \/ NumbersLt(PointerNumbers(r1), PointerNumbers(r2))
    \/ r1.pointer = r2.pointer /\ StrLt(r1.hostname, r2.hostname)

SortedReverse == pc = "return" /\ \A i \in DOMAIN args.records : IsReverse(args.records[i])

\* C24: sorted() puts reverse records in the order of their pointers as
\* numbers, the most significant label first, those of one pointer in the
\* order of their hostname; for IPv4 this is the order of the last octets.
C24_ReverseOrderNumeric ==
    SortedReverse =>
        /\ SortedAll
        /\ \A i \in DOMAIN ret.value : \A j \in DOMAIN ret.value :
               i < j => ReverseBefore(ret.value[i], ret.value[j])

\* Witness for C24: the pointers 100, 10 and 2 were iterated in this order and
\* are sorted as 2, 10, 100.
C24_Witness ==
    /\ SortedReverse
    /\ Len(args.records) = 3
    /\ <<args.records[1].pointer, args.records[2].pointer, args.records[3].pointer>>
           = <<S("100"), S("10"), S("2")>>
    /\ <<ret.value[1].pointer, ret.value[2].pointer, ret.value[3].pointer>>
           = <<S("2"), S("10"), S("100")>>

\* Witness for C24: 99 is sorted before 100.
C24_Witness99 ==
    /\ SortedReverse
    /\ Len(args.records) = 2
    /\ args.records[1].pointer = S("100")
    /\ ret.value[1].pointer = S("99")
    /\ ret.value[2].pointer = S("100")

-----------------------------------------------------------------------------
(* Claims on check_icinga_should_run and main() (SpecIcinga)               *)

\* The run is in Icinga check mode and main() is past the check.
IcingaCheckDone ==
    /\ pc \notin {"parse_args", "main"}
    /\ args.command = "commit"
    /\ args.icinga_check

\* main() returned at the check: its locals were never bound.
IcingaSkipped == pc = "done" /\ frame = None

\* The seconds elapsed since the timestamp of the state file.
Elapsed == args.time - args.state_file.timestamp

\* The state file is readable, and the last run is recent enough for its
\* exit code: 60 minutes after a success, 15 minutes after a failure.
RecentRun ==
    /\ args.state_file.kind = "state"
    /\ \/ args.state_file.exit_code = 0 /\ Elapsed <= 60 * 60
       \/ args.state_file.exit_code /= 0 /\ Elapsed <= 15 * 60

\* The state file was rewritten in this run.
StateFileWritten == \E i \in 1..Len(events) : events[i].kind = "icinga_state"

\* C28: in Icinga check mode the run is skipped exactly when the state file
\* is readable and the last run is no more than 60 minutes old after exit
\* code 0, or no more than 15 minutes old after another exit code; a missing
\* or unreadable state file never skips; a skipped run returns 0 having
\* collected nothing, generated nothing and left the state file alone, and
\* a run without --icinga-check is never skipped.
C28_IcingaSkipExactlyWhenRecent ==
    /\ IcingaCheckDone =>
           /\ Happened(LogRecord("INFO", "Skipping", "")) <=> RecentRun
           /\ (pc = "done" /\ RecentRun) =>
                  /\ IcingaSkipped
                  /\ ret = Return(0)
                  /\ netbox = EmptyNetbox
                  /\ zones = EmptyZones
                  /\ records_count = 0
                  /\ ~tmpdir.bound
                  /\ ~StateFileWritten
           /\ ~RecentRun => frame /= None
    /\ (pc \notin {"parse_args", "main"} /\ ~IcingaCheckDone) => frame /= None

\* A run skipped exactly 60 minutes after a success.
C28_Witness ==
    /\ IcingaCheckDone
    /\ IcingaSkipped
    /\ args.state_file.kind = "state"
    /\ args.state_file.exit_code = 0
    /\ Elapsed = 3600

\* A run not skipped 15 minutes and a second after a failure, which rewrote
\* the state file.
C28_WitnessRetry ==
    /\ IcingaCheckDone
    /\ pc = "done"
    /\ args.state_file.kind = "state"
    /\ args.state_file.exit_code /= 0
    /\ Elapsed = 901
    /\ StateFileWritten

\* A run with no state file, which is not skipped.
C28_WitnessMissing ==
    /\ IcingaCheckDone
    /\ pc = "done"
    /\ args.state_file.kind = "missing"
    /\ StateFileWritten

-----------------------------------------------------------------------------
(* Claims on the PTR target (SpecPointer)                                  *)

\* The name of the zone file is the zone, or the zone with a '-<site>' suffix.
FileOfZone(file, zone) ==
    \/ file = zone
    \/ /\ Len(file) > Len(zone) + 1
       /\ SubSeq(file, 1, Len(zone) + 1) = zone \o S("-")

\* The PTR target is the hostname of the forward entry joined with its zone.
TargetOf(e, f) ==
    /\ f.record.ip = e.record.ip
    /\ e.record.hostname = f.record.hostname \o S(".") \o f.record.zone
    /\ FileOfZone(f.zone, f.record.zone)

\* The forward entry is the asset tag record of the address of the device:
\* the lowercased asset tag, in the zone the DNS name ends with.
AssetTagEntry(f, pair) ==
    /\ pair[1].device /= None
    /\ pair[1].physical
    /\ f.record.hostname = Lower(pair[1].device.asset_tag)
    /\ EndsWith(Strip(pair[2].dns_name), S(".") \o f.record.zone)

\* The DNS name of the address has at least two labels.
TwoLabels(address) == Len(Split(Strip(address.dns_name), ".")) >= 2

\* C29: every PTR record has a forward record of the same IP whose hostname,
\* joined with its zone (the name of its zone file without the '-<site>'
\* suffix), is the PTR target; when the DNS name of the address has at least
\* two labels the target is the trimmed DNS name, or, for the asset tag
\* record, the lowercased asset tag joined with the zone.
C29_PtrTargetIsForwardName ==
    \A e \in zones.reverse :
        \E f \in zones.direct, pair \in CollectedPairs :
            /\ TargetOf(e, f)
            /\ pair[2].address.ip = e.record.ip
            /\ TwoLabels(pair[2]) =>
                   \/ e.record.hostname = Strip(pair[2].dns_name)
                   \/ /\ AssetTagEntry(f, pair)
                      /\ e.record.hostname =
                             Lower(pair[1].device.asset_tag) \o S(".") \o f.record.zone

\* A padded name of a management address gives two PTR records: the trimmed
\* name and the asset tag in the same zone.
C29_Witness ==
    /\ pc = "return"
    /\ \E pair \in CollectedPairs :
           /\ pair[2].dns_name = S(" mgmt.mgmt.wmnet\n")
           /\ \E e \in zones.reverse : e.record.hostname = S("mgmt.mgmt.wmnet")
           /\ \E e \in zones.reverse : e.record.hostname = S("wmf1234.mgmt.wmnet")

\* The PTR target of a record whose zone file has a site suffix.
C29_WitnessSuffixed ==
    /\ pc = "return"
    /\ \E e \in zones.reverse, f \in zones.direct :
           /\ TargetOf(e, f)
           /\ f.zone = S("mgmt.org-eqiad")
           /\ e.record.hostname = S("wmf1234.mgmt.org")

-----------------------------------------------------------------------------
(* Claims on provision_server (SpecProvision)                              *)

\* The device has the interface _assign_primary creates.
HasPrimaryInterface(db, name) ==
    \E i \in db.interfaces : i.device = name /\ i.name = PRIMARY_IFACE_NAME

\* The device has no interface at all, or exactly one, named 'mgmt', that
\* holds exactly one IP address, which has a DNS name.
NoInterfaceOrOnlyMgmt(db, name) ==
    \/ \A i \in db.interfaces : i.device /= name
    \/ \E i \in db.interfaces :
           /\ i.device = name
           /\ i.name = S("mgmt")
           /\ \A j \in db.interfaces : j.device = name => j = i
           /\ \E a \in db.ip_addresses :
                  /\ a.device = name /\ a.interface = i.name
                  /\ a.dns_name /= <<>>
                  /\ \A b \in db.ip_addresses :
                         (b.device = name /\ b.interface = i.name) => b = a

\* The messages of the checks of the parameters, the status, the rack, the
\* role, the cable ID, the switch and the interfaces.
FailedChecks ==
    {"one parameter between VLAN Type and VLAN must be specified",
     "only one parameter between VLAN Type and VLAN can be specified",
     "expected Inventory or Planned",
     "missing rack information",
     "only servers are supported",
     "Cable ID already assigned",
     "Can't find an adequate top-or-rack switch",
     "switch not in same rack as server",
     "interfaces already defined"}

\* The call of this step created or changed an object of the database.
CreatedSomething == netbox' /= netbox

\* The call of this step is for a device that has the right status, rack and
\* role.
DeviceChecksPass(device) ==
    /\ device.status \in {"inventory", "planned"}
    /\ device.rack /= None
    /\ device.role = "server"

\* C30: a call of provision_server creates something only when, before the
\* call, the device has no interface or only a 'mgmt' interface with exactly
\* one IP address that has a DNS name, and when no check ended the call; a
\* primary interface, once created, stays; and a call for a device that has
\* the primary interface ends at one of the checks and creates nothing, also
\* when the call that created it returned at the switch port, before the
\* management interface.
C30_ProvisionedOnce ==
    [][/\ CreatedSomething =>
              /\ NoInterfaceOrOnlyMgmt(netbox, args'.device)
              /\ DeviceChecksPass(netbox.devices[args'.device])
              /\ ret'.outcome \notin FailedChecks
       /\ \A name \in ServerNames :
              HasPrimaryInterface(netbox, name) => HasPrimaryInterface(netbox', name)
       /\ HasPrimaryInterface(netbox, args'.device) =>
              /\ ~CreatedSomething
              /\ ret'.outcome \in FailedChecks]_vars

\* The interfaces of the device the last call was for.
LastInterfaces == {i \in netbox.interfaces : i.device = args.device}

\* A second call for a device that the first call left with the primary
\* interface alone, having returned at the invalid switch port.
C30_Witness ==
    /\ records_count = 2
    /\ args.device = S("db1002")
    /\ ret.outcome = "interfaces already defined"
    /\ \A i \in LastInterfaces : i.name = PRIMARY_IFACE_NAME
    /\ \E a \in netbox.ip_addresses : a.device = args.device
    /\ \A i \in netbox.interfaces : i.device \in ServerNames
    /\ netbox.cables = {}

\* The same after a call that found a cable on the switch port.
C30_WitnessCabled ==
    /\ records_count = 2
    /\ args.device = S("db1002")
    /\ ret.outcome = "interfaces already defined"
    /\ \A i \in LastInterfaces : i.name = PRIMARY_IFACE_NAME
    /\ netbox.cables = {OldCable}
    /\ \E i \in netbox.interfaces : i.device = S("asw-a1")

\* A call that created everything: both interfaces, the addresses and the
\* cable.
C30_WitnessComplete ==
    /\ records_count = 1
    /\ ret.outcome = ""
    /\ \E i \in LastInterfaces : i.name = PRIMARY_IFACE_NAME
    /\ \E i \in LastInterfaces : i.name = MGMT_IFACE_NAME
    /\ \E c \in netbox.cables : c.a = <<args.device, PRIMARY_IFACE_NAME>>
    /\ netbox.devices[args.device].primary_ip4 /= None
    /\ netbox.devices[args.device].primary_ip6 /= None
    /\ Cardinality({a \in netbox.ip_addresses : a.device = args.device}) = 5

\* A call that an exception ended after the primary interface was created.
C30_WitnessRaised ==
    /\ ret.kind = "raise"
    /\ \E i \in LastInterfaces : i.name = PRIMARY_IFACE_NAME

====
